---- MODULE Spec2Model ----
(***************************************************************************)
(* Annotation replay of bench2drive-phantom-objects: LidarRecorder.run     *)
(* drives LidarRecorder.replay_and_save_scans over a batch of instances    *)
(* against an external simulator; the range sensor delivers samples        *)
(* through an asynchronous callback.                                       *)
(*                                                                         *)
(* The simulator is the environment: every call into it may return its     *)
(* result or raise, try_spawn_actor may return no actor, and the sensor    *)
(* callback may fire at any time while the sensor listens.                 *)
(***************************************************************************)
EXTENDS Integers, Sequences, FiniteSets, TLC

\* ------------------------------------------------------------------ bounds
MaxInstances == 2
MaxFrames == 3
MaxPhantoms == 1
MaxIndex == 12
\* Simulator failures (a call that raises where the code guards against it)
\* per batch.
MaxFaults == 1
MaxFiles == 2
MaxPoints == 2

\* The actor ids of the annotations, in the order a frame lists them; the
\* dataset gives each id one class.
IdOrder == <<"A", "B">>
Ids == {IdOrder[i] : i \in DOMAIN IdOrder}
ClassOf(id) == IF id = "A" THEN "ego_vehicle" ELSE "vehicle"
Absent == -1
\* A recorded pose is its height; the retry pose is RetryLift higher.
Poses == {0, 1}
RetryLift == 2
Weathers == {"clear", "rain"}
DefaultWeather == "default"
NoTransform == -1
NoSample == 0

\* The decimal digits of a natural number, most significant first.
RECURSIVE Digits(_)
Digits(n) == IF n < 10 THEN << n >> ELSE Digits(n \div 10) \o << n % 10 >>

\* Zeros in front up to the width; a longer sequence is left as it is.
RECURSIVE ZeroPad(_, _)
ZeroPad(ds, width) == IF Len(ds) >= width THEN ds ELSE ZeroPad(<< 0 >> \o ds, width)

\* ---------------------------------------------------------------- helpers
Put(f, k, v) == [x \in DOMAIN f \cup {k} |-> IF x = k THEN v ELSE f[x]]
Drop(f, ks) == [x \in DOMAIN f \ ks |-> f[x]]
Range(s) == {s[i] : i \in DOMAIN s}
EmptyMap == [x \in {} |-> 0]

\* ------------------------------------------------------ blueprint resolver
CLASS_BLUEPRINT_MAP ==
  [c \in {"ego_vehicle", "vehicle", "walker", "traffic_light", "traffic_sign"} |->
     CASE c = "ego_vehicle" -> "vehicle.lincoln.mkz_2020"
       [] c = "vehicle" -> "vehicle.tesla.model3"
       [] c = "walker" -> "walker.pedestrian.0001"
       [] OTHER -> "static.prop.streetsign"]

\* A mesh table that does not know the Lincoln mesh.
MESH_ID_MAP_NoLincoln ==
  << <<"Charger", "vehicle.dodge.charger_2020">>,
     <<"FordCrown", "vehicle.ford.crown">>,
     <<"MercedesCCC", "vehicle.mercedes.coupe_2020">>,
     <<"NissanPatrol2021", "vehicle.nissan.patrol_2021">> >>

\* The mesh table in the iteration order of the dict literal.
MESH_ID_MAP ==
  << <<"Charger", "vehicle.dodge.charger_2020">>,
     <<"FordCrown", "vehicle.ford.crown">>,
     <<"Lincoln", "vehicle.lincoln.mkz_2020">>,
     <<"MercedesCCC", "vehicle.mercedes.coupe_2020">>,
     <<"NissanPatrol2021", "vehicle.nissan.patrol_2021">> >>

\* A type_id is a string, held as the sequence of its parts; the empty
\* sequence is the unset (None or '') type_id.
Raised == "RAISED"
Truthy(type_id) == Len(type_id) > 0
StartsWithGame(type_id) == Len(type_id) > 0 /\ type_id[1] = "/Game/"
Contains(type_id, key) == \E i \in 1..Len(type_id) : type_id[i] = key
NameOf(type_id) == IF Len(type_id) = 1 THEN type_id[1] ELSE "<path>"

\* blueprint_library.find(name): the blueprint, or an exception when the
\* library holds no such name.
Find(lib, name) == IF name \in lib THEN name ELSE Raised

MeshMatches(type_id) == {i \in 1..Len(MESH_ID_MAP) : Contains(type_id, MESH_ID_MAP[i][1])}
FirstMatch(type_id) == CHOOSE i \in MeshMatches(type_id) : \A j \in MeshMatches(type_id) : i <= j

\* A fallback that ignores the class table.
ClassFallback_NoTable(lib, actor_class) == Find(lib, "static.prop.fountain")

ClassFallback(lib, actor_class) ==
  LET fallback_id == IF actor_class \in DOMAIN CLASS_BLUEPRINT_MAP
                       THEN CLASS_BLUEPRINT_MAP[actor_class]
                       ELSE "static.prop.fountain"
  IN IF Find(lib, fallback_id) # Raised
       THEN Find(lib, fallback_id)
       ELSE Find(lib, "static.prop.fountain")

\* A resolver that consults the class table before the recorded name.
get_blueprint_ClassFirst(lib, actor_class, type_id) ==
  IF Truthy(type_id) /\ StartsWithGame(type_id)
    THEN IF MeshMatches(type_id) # {}
           THEN Find(lib, MESH_ID_MAP[FirstMatch(type_id)][2])
           ELSE Find(lib, CLASS_BLUEPRINT_MAP["vehicle"])
    ELSE IF actor_class \in DOMAIN CLASS_BLUEPRINT_MAP
              /\ Find(lib, CLASS_BLUEPRINT_MAP[actor_class]) # Raised
           THEN Find(lib, CLASS_BLUEPRINT_MAP[actor_class])
           ELSE IF Truthy(type_id) /\ Find(lib, NameOf(type_id)) # Raised
                  THEN Find(lib, NameOf(type_id))
                  ELSE ClassFallback(lib, actor_class)

get_blueprint(lib, actor_class, type_id) ==
  IF Truthy(type_id) /\ StartsWithGame(type_id)
    THEN IF MeshMatches(type_id) # {}
           THEN Find(lib, MESH_ID_MAP[FirstMatch(type_id)][2])
           ELSE Find(lib, CLASS_BLUEPRINT_MAP["vehicle"])
    ELSE IF Truthy(type_id) /\ Find(lib, NameOf(type_id)) # Raised
           THEN Find(lib, NameOf(type_id))
           ELSE ClassFallback(lib, actor_class)

\* Inputs of the resolver.
Classes == {"ego_vehicle", "vehicle", "walker", "traffic_light", "traffic_sign", "unknown"}
TypeIds ==
  { <<>>, <<"vehicle.audi.tt">>, <<"vehicle.none">>,
    <<"/Game/", "Lincoln">>, <<"/Game/", "Other">>,
    <<"/Game/", "Charger", "Lincoln">>, <<"x", "/Game/", "Lincoln">> }
AllBlueprints ==
  { "vehicle.lincoln.mkz_2020", "vehicle.tesla.model3", "walker.pedestrian.0001",
    "static.prop.streetsign", "static.prop.fountain", "vehicle.dodge.charger_2020",
    "vehicle.audi.tt" }
\* The worlds load_world may return: the stepping mode of the loaded world
\* and its blueprint library.
Worlds ==
  { [synchronous_mode |-> FALSE, library |-> AllBlueprints],
    [synchronous_mode |-> TRUE,
     library |-> AllBlueprints \ {"vehicle.lincoln.mkz_2020"}] }

\* ------------------------------------------------------------------ state
VARIABLES
  pc,                     \* position of the driver thread
  inst,                   \* index of the instance run() is at
  n_instances,            \* len(instances)
  dataset,                \* which annotation frames the files may hold
  spawn_frequency,        \* self.spawn_frequency
  lidar_sensor,           \* self.lidar_sensor
  current_lidar_data,     \* self.current_lidar_data
  lidar_data_ready,       \* self.lidar_data_ready
  delivered,              \* the sample of the last call of lidar_callback
  replaced,               \* that call found an unconsumed other sample in the slot
  cb_pc,                  \* the position of the sensor's thread inside lidar_callback
  slot_written,           \* the sample in the slot has been written to a scan file
  actors,                 \* the world: live actor handle -> its state
  weather,                \* the world's weather
  synchronous_mode,       \* the world's stepping mode
  blueprint_library,      \* the world's blueprint library
  frame_idx,
  data,                   \* the annotation of the frame
  bb_idx,                 \* position in data['bounding_boxes']
  current_frame_actor_ids,
  ego_transform,
  spawned_actors,
  failed_spawn_ids,
  scans_saved,
  lidar_files,            \* the names of the scan files written by this replay
  random_objects_anno,
  random_actors,
  anno_new,               \* the annotation written to anno_new for the frame in hand
  anno_original,          \* the text written to anno_original for the frame in hand
  scan_written,           \* the sample written as the scan file of the frame in hand
  spawn_try,              \* the try_spawn_actor calls and the result of the last entry step
  exc,                    \* the exception leaving the try block
  \* history, for the properties
  orig_sync,              \* the stepping mode of the world before line 247 sets it
  started,                \* instances replay_and_save_scans was called for
  fatal,                  \* instances abandoned on a fatal failure
  interrupt_inst,         \* instance during which the interrupt arrived
  attempts,               \* spawn attempts per id in this replay
  ticks,                  \* world ticks of this replay
  faults,                 \* simulator failures so far
  prev_actors,            \* spawned_actors at the end of the previous frame
  prev_failed,            \* failed_spawn_ids at the end of the previous frame
  prev_weather,           \* the world's weather at the end of the previous frame
  bp_in, bp_out,          \* input and result of one blueprint resolution
  scan_in, scan_file, scan_out, \* a scan buffer, the file written from it, what is read back
  validation,             \* one run of download_bech2drive_dataset and validate_dataset
  conversion              \* one run of the conversion utility

vars == << pc, inst, n_instances, dataset, spawn_frequency, lidar_sensor, current_lidar_data,
           lidar_data_ready, delivered, replaced, cb_pc, slot_written, actors, weather, synchronous_mode,
           blueprint_library, frame_idx, data, bb_idx,
           current_frame_actor_ids, ego_transform, spawned_actors,
           failed_spawn_ids, scans_saved, lidar_files, random_objects_anno, random_actors,
           anno_new, anno_original, scan_written, spawn_try,
           exc, orig_sync, started, fatal, interrupt_inst, attempts, ticks,
           faults, prev_actors, prev_failed, prev_weather, bp_in, bp_out,
           scan_in, scan_file, scan_out, validation, conversion >>

bufferVars == << current_lidar_data, lidar_data_ready, delivered, replaced, cb_pc,
                slot_written >>
recorderVars == << lidar_sensor, bufferVars >>
worldVars == << actors, weather, synchronous_mode, blueprint_library, orig_sync >>
frameVars == << data, bb_idx, current_frame_actor_ids, ego_transform,
                random_objects_anno, random_actors, anno_new, anno_original, scan_written,
                spawn_try >>
replayVars == << frame_idx, spawned_actors, failed_spawn_ids,
                 scans_saved, lidar_files, attempts, ticks, prev_actors, prev_failed,
                 prev_weather >>
prevVars == << prev_actors, prev_failed, prev_weather >>
toolVars == << validation, conversion >>
inputVars == << n_instances, dataset, spawn_frequency, toolVars >>
batchVars == << inst, inputVars, started, fatal, interrupt_inst >>
scanVars == << scan_in, scan_file, scan_out >>
bpVars == << bp_in, bp_out, scanVars >>
envVars == << bp_in, bp_out, scanVars, faults >>

\* Handles of simulator actors.
NoneH == [kind |-> "none", key |-> "", n |-> 0]
ActorH(id, n) == [kind |-> "actor", key |-> id, n |-> n]
SensorH(i) == [kind |-> "sensor", key |-> "", n |-> i]
PhantomH(f, i) == [kind |-> "phantom", key |-> "", n |-> f * (MaxPhantoms + 1) + i]

ActorState(tf, physics, listening) ==
  [tf |-> tf, physics |-> physics, listening |-> listening]

\* The bounding_boxes list in which each id is absent or listed at a pose.
BBList(m) ==
  SelectSeq([i \in DOMAIN IdOrder |->
               [class |-> ClassOf(IdOrder[i]), id |-> IdOrder[i], tf |-> m[IdOrder[i]]]],
            LAMBDA bb : bb.tf # Absent)
\* The poses of an id that a frame lists not at all, once or twice.
PoseLists == {<<>>} \cup {<<p>> : p \in Poses} \cup {<<p, q>> : p \in Poses, q \in Poses}

\* A bounding_boxes list with the ego entry, if any, followed by the entries
\* of the other id, one per pose of the list.
DupList(a, ps) ==
  BBList([id \in Ids |-> IF id = IdOrder[1] THEN a ELSE Absent])
    \o [i \in 1..Len(ps) |->
          [class |-> ClassOf(IdOrder[2]), id |-> IdOrder[2], tf |-> ps[i]]]

\* The frames of a dataset: "full" lists every id at every pose under every
\* weather, "dup" may list an id twice, "ego" lists the ego actor alone.
Frames(ds) ==
  IF ds = "full"
    THEN {[bounding_boxes |-> BBList(m), weather |-> w] :
            m \in [Ids -> Poses \cup {Absent}], w \in Weathers}
    ELSE IF ds = "dup"
    THEN {[bounding_boxes |-> DupList(a, ps), weather |-> "clear"] :
            a \in {0, Absent}, ps \in PoseLists}
    ELSE {[bounding_boxes |-> BBList([id \in Ids |-> IF id = "A" THEN t ELSE Absent]),
            weather |-> "clear"] : t \in {0, Absent}}
NoFrame == [bounding_boxes |-> <<>>, weather |-> DefaultWeather]
\* No annotation has been written for the frame in hand.
NoFile == [bounding_boxes |-> <<>>, weather |-> "none"]
\* Nothing has been written to anno_original for the frame in hand.
NoText == <<>>

\* The keys of an annotation object, in the order the file lists them.
Keys == << "bounding_boxes", "weather" >>

\* json.dump: the object as the text of its key and value pairs.
json_dump(obj) == [i \in DOMAIN Keys |-> << Keys[i], obj[Keys[i]] >>]

\* json.load: the object a text of key and value pairs spells.
json_load(text) ==
  [key \in {text[i][1] : i \in DOMAIN text} |->
     text[CHOOSE i \in DOMAIN text : text[i][1] = key][2]]

\* The number of annotation files of an instance directory: the directories
\* of a batch of several instances hold one file less than a directory
\* replayed alone.
FileCount == IF dataset \in {"full", "dup"} \/ n_instances = 1 THEN MaxFrames ELSE MaxFrames - 1

\* No buffer, no file, nothing read.
NoScan == <<>>

\* No dataset is being validated, no file converted.
NoValidation ==
  [data |-> <<>>, disk |-> <<>>, i |-> 0, extracted |-> {}, result |-> "none",
   raised |-> "none"]
NoConversion == [files |-> <<>>, color_by |-> "none", stack |-> FALSE, out |-> <<>>]

\* No try_spawn_actor call and no result: the entry step was not an attempt.
NoTry == [calls |-> <<>>, result |-> "none"]

NoBp == [class |-> "", type_id |-> <<>>, lib |-> {}]

\* The locals of replay_and_save_scans before its first frame.
FreshLocals ==
  /\ frame_idx' = 0
  /\ data' = NoFrame
  /\ bb_idx' = 0
  /\ current_frame_actor_ids' = {}
  /\ ego_transform' = NoTransform
  /\ spawned_actors' = EmptyMap
  /\ failed_spawn_ids' = {}
  /\ scans_saved' = 0
  /\ lidar_files' = {}
  /\ random_objects_anno' = <<>>
  /\ random_actors' = <<>>
  /\ anno_new' = NoFile
  /\ anno_original' = NoText
  /\ scan_written' = NoSample
  /\ spawn_try' = NoTry
  /\ attempts' = [id \in Ids |-> 0]
  /\ ticks' = 0
  /\ prev_actors' = EmptyMap
  /\ prev_failed' = {}
  /\ prev_weather' = DefaultWeather
  /\ exc' = "none"

InitCommon ==
  /\ lidar_sensor = NoneH
  /\ current_lidar_data = NoSample
  /\ lidar_data_ready = FALSE
  /\ delivered = NoSample
  /\ replaced = FALSE
  /\ cb_pc = "idle"
  /\ slot_written = FALSE
  /\ actors = EmptyMap
  /\ weather = DefaultWeather
  /\ synchronous_mode = FALSE
  /\ blueprint_library = {}
  /\ frame_idx = 0
  /\ data = NoFrame
  /\ bb_idx = 0
  /\ current_frame_actor_ids = {}
  /\ ego_transform = NoTransform
  /\ spawned_actors = EmptyMap
  /\ failed_spawn_ids = {}
  /\ scans_saved = 0
  /\ lidar_files = {}
  /\ random_objects_anno = <<>>
  /\ random_actors = <<>>
  /\ anno_new = NoFile
  /\ anno_original = NoText
  /\ scan_written = NoSample
  /\ spawn_try = NoTry
  /\ exc = "none"
  /\ orig_sync = FALSE
  /\ started = {}
  /\ fatal = {}
  /\ interrupt_inst = 0
  /\ attempts = [id \in Ids |-> 0]
  /\ ticks = 0
  /\ faults = 0
  /\ prev_actors = EmptyMap
  /\ prev_failed = {}
  /\ prev_weather = DefaultWeather
  /\ inst = 1
  /\ bp_out = ""
  /\ scan_file = NoScan
  /\ scan_out = NoScan

\* LidarRecorder.__init__ and the start of run(): a batch of MaxInstances
\* instances whose frames list the ego actor, with up to MaxPhantoms phantom
\* objects per frame.
Init ==
  /\ InitCommon
  /\ pc = "run_loop"
  /\ n_instances = MaxInstances
  /\ dataset = "ego"
  /\ spawn_frequency = <<0, MaxPhantoms>>
  /\ bp_in = NoBp
  /\ scan_in = NoScan
  /\ validation = NoValidation
  /\ conversion = NoConversion

\* The same batch with spawn_frequency (0, 0): no phantom object is spawned.
InitBatch ==
  /\ InitCommon
  /\ pc = "run_loop"
  /\ n_instances = MaxInstances
  /\ dataset = "ego"
  /\ spawn_frequency = <<0, 0>>
  /\ bp_in = NoBp
  /\ scan_in = NoScan
  /\ validation = NoValidation
  /\ conversion = NoConversion

\* One instance whose frames list the ego actor, with either phantom range.
InitPhantom ==
  /\ InitCommon
  /\ pc = "run_loop"
  /\ n_instances = 1
  /\ dataset = "ego"
  /\ spawn_frequency \in {<<0, 0>>, <<0, MaxPhantoms>>}
  /\ bp_in = NoBp
  /\ scan_in = NoScan
  /\ validation = NoValidation
  /\ conversion = NoConversion

\* One instance over the full frames, no phantom objects.
InitReplay ==
  /\ InitCommon
  /\ pc = "run_loop"
  /\ n_instances = 1
  /\ dataset = "full"
  /\ spawn_frequency = <<0, 0>>
  /\ bp_in = NoBp
  /\ scan_in = NoScan
  /\ validation = NoValidation
  /\ conversion = NoConversion

\* One instance over frames that may list an id twice, no phantom objects.
InitDup ==
  /\ InitCommon
  /\ pc = "run_loop"
  /\ n_instances = 1
  /\ dataset = "dup"
  /\ spawn_frequency = <<0, 0>>
  /\ bp_in = NoBp
  /\ scan_in = NoScan
  /\ validation = NoValidation
  /\ conversion = NoConversion

\* ------------------------------------------------------------ run(), batch
\* replay_and_save_scans returns None before the world is touched: the anno
\* directory or its files are missing, the name holds no Town part, or
\* load_world raised RuntimeError.
ReplayRejected ==
  /\ pc = "run_loop"
  /\ inst <= n_instances
  /\ \E reason \in {"no_anno_dir", "no_files", "no_town", "load_error"} :
       fatal' = fatal \cup {inst}
  /\ started' = started \cup {inst}
  /\ inst' = inst + 1
  /\ UNCHANGED << pc, inputVars, interrupt_inst, recorderVars, worldVars,
                  frameVars, replayVars, exc, envVars >>

\* The world is loaded and put in synchronous mode; the per-replay
\* collections start empty.  Loading a world ends the previous one: none of
\* its actors is alive any more.
ReplayBegin ==
  /\ pc = "run_loop"
  /\ inst <= n_instances
  /\ started' = started \cup {inst}
  /\ \E world \in Worlds :
       /\ orig_sync' = world.synchronous_mode
       /\ blueprint_library' = world.library
  /\ actors' = EmptyMap
  /\ weather' = DefaultWeather
  /\ synchronous_mode' = TRUE
  /\ FreshLocals
  /\ pc' = "read"
  /\ UNCHANGED << inst, inputVars, fatal, interrupt_inst, recorderVars, envVars >>

\* A frame start that keeps the ego pose of the frame before.
ReadFrameKeepsEgo ==
  /\ pc = "read"
  /\ frame_idx < FileCount
  /\ \E frame \in Frames(dataset) : data' = frame
  /\ bb_idx' = 1
  /\ current_frame_actor_ids' = {}
  /\ ego_transform' = ego_transform
  /\ random_objects_anno' = <<>>
  /\ random_actors' = <<>>
  /\ anno_new' = NoFile
  /\ anno_original' = json_dump(data')
  /\ scan_written' = NoSample
  /\ spawn_try' = NoTry
  /\ prev_actors' = spawned_actors
  /\ prev_failed' = failed_spawn_ids
  /\ prev_weather' = weather
  /\ pc' = "reconcile"
  /\ UNCHANGED << batchVars, recorderVars, worldVars, frame_idx, spawned_actors,
                  failed_spawn_ids, scans_saved, lidar_files, attempts, ticks, exc, envVars >>

\* The for loop of the try block takes the next annotation file: it is read
\* and copied to anno_original, and the per-frame locals are reset.
ReadFrame ==
  /\ pc = "read"
  /\ frame_idx < FileCount
  /\ \E frame \in Frames(dataset) : data' = frame
  /\ bb_idx' = 1
  /\ current_frame_actor_ids' = {}
  /\ ego_transform' = NoTransform
  /\ random_objects_anno' = <<>>
  /\ random_actors' = <<>>
  /\ anno_new' = NoFile
  /\ anno_original' = json_dump(data')
  /\ scan_written' = NoSample
  /\ spawn_try' = NoTry
  /\ prev_actors' = spawned_actors
  /\ prev_failed' = failed_spawn_ids
  /\ prev_weather' = weather
  /\ pc' = "reconcile"
  /\ UNCHANGED << batchVars, recorderVars, worldVars, frame_idx, spawned_actors,
                  failed_spawn_ids, scans_saved, lidar_files, attempts, ticks, exc, envVars >>

\* The annotation files are exhausted: the try block returns scans_saved.
LoopEnd ==
  /\ pc = "read"
  /\ frame_idx >= 1
  /\ pc' = "cleanup"
  /\ UNCHANGED << batchVars, recorderVars, worldVars, frameVars, replayVars,
                  exc, envVars >>

\* ------------------------------------------------- reconciliation, per entry
CurrentBB == data.bounding_boxes[bb_idx]
InReconcile == pc = "reconcile" /\ bb_idx <= Len(data.bounding_boxes)

\* Lines shared by every path through one bounding-box entry: the id joins
\* the frame's set and an ego entry sets ego_transform.
EntryHead ==
  /\ current_frame_actor_ids' = current_frame_actor_ids \cup {CurrentBB.id}
  /\ ego_transform' = IF CurrentBB.class = "ego_vehicle" THEN CurrentBB.tf
                      ELSE ego_transform
  /\ bb_idx' = bb_idx + 1
  /\ UNCHANGED << data, random_objects_anno, random_actors, anno_new, anno_original, scan_written >>

\* The spawn guard without its memory of failures: what the branch would be if
\* failed_spawn_ids were not consulted.
NeedsSpawnForgetful(id) == id \notin DOMAIN spawned_actors

NeedsSpawn(id) == id \notin DOMAIN spawned_actors /\ id \notin failed_spawn_ids

\* The branch for a tracked id without the call of line 311: the actor keeps
\* the pose it has.
UpdateTrackedKeeps ==
  /\ InReconcile
  /\ CurrentBB.id \in DOMAIN spawned_actors
  /\ EntryHead
  /\ spawn_try' = NoTry
  /\ UNCHANGED << pc, batchVars, recorderVars, worldVars, replayVars, exc, envVars >>

\* The id is tracked: its actor is moved to the recorded pose.
UpdateTracked ==
  /\ InReconcile
  /\ CurrentBB.id \in DOMAIN spawned_actors
  /\ EntryHead
  /\ spawn_try' = NoTry
  /\ actors' = [actors EXCEPT ![spawned_actors[CurrentBB.id]].tf = CurrentBB.tf]
  /\ UNCHANGED << pc, batchVars, recorderVars, weather, synchronous_mode,
                  blueprint_library, orig_sync, replayVars, exc, envVars >>

\* The id is remembered as failed: nothing is attempted.
SkipFailed ==
  /\ InReconcile
  /\ CurrentBB.id \notin DOMAIN spawned_actors
  /\ ~NeedsSpawn(CurrentBB.id)
  /\ EntryHead
  /\ spawn_try' = NoTry
  /\ UNCHANGED << pc, batchVars, recorderVars, worldVars, replayVars, exc, envVars >>

\* The guard of the spawn branch, and the attempt counted.
Attempt ==
  /\ InReconcile
  /\ NeedsSpawn(CurrentBB.id)
  /\ EntryHead
  /\ attempts' = [attempts EXCEPT ![CurrentBB.id] = @ + 1]

\* A retry at the pose of the first try.
SpawnCallsSamePose(tf, tries) == IF tries = 1 THEN << tf >> ELSE << tf, tf >>

\* The poses handed to try_spawn_actor when it is called once or twice: the
\* recorded transform, then the same RetryLift higher.
SpawnCalls(tf, tries) == IF tries = 1 THEN << tf >> ELSE << tf, tf + RetryLift >>

BlueprintResolves ==
  \E type_id \in TypeIds :
    get_blueprint(blueprint_library, CurrentBB.class, type_id) # Raised

\* An attempt whose failure is not caught inside the entry: the exception
\* leaves the frame loop.
SpawnFailsFatal ==
  /\ Attempt
  /\ spawn_try' = [calls |-> <<>>, result |-> "raised"]
  /\ failed_spawn_ids' = failed_spawn_ids \cup {CurrentBB.id}
  /\ exc' = "error"
  /\ pc' = "cleanup"
  /\ UNCHANGED << batchVars, recorderVars, worldVars, frame_idx,
                  spawned_actors, scans_saved, lidar_files, ticks, prevVars, envVars >>

\* The attempt leaves no actor: get_blueprint raised, try_spawn_actor raised,
\* or both tries (recorded pose, then RetryLift higher) returned no actor.
SpawnFails ==
  /\ Attempt
  /\ \E cause \in {"blueprint", "spawn_raised", "blocked_twice"}, type_id \in TypeIds,
        tries \in 1..2 :
       /\ (cause = "blueprint") <=>
            (get_blueprint(blueprint_library, CurrentBB.class, type_id) = Raised)
       /\ cause = "blocked_twice" => tries = 2
       /\ spawn_try' =
            IF cause = "blueprint" THEN [calls |-> <<>>, result |-> "raised"]
            ELSE [calls |-> SpawnCalls(CurrentBB.tf, tries),
                  result |-> IF cause = "blocked_twice" THEN "blocked" ELSE "raised"]
  /\ failed_spawn_ids' = failed_spawn_ids \cup {CurrentBB.id}
  /\ UNCHANGED << pc, batchVars, recorderVars, worldVars, frame_idx,
                  spawned_actors, scans_saved, lidar_files, ticks, prevVars, exc, envVars >>

\* An actor is spawned (at the recorded or at the raised pose) and
\* set_simulate_physics or set_transform raises: the handler records the id
\* as failed and the actor stays in the world, in no collection.
SpawnLeaks ==
  /\ Attempt
  /\ BlueprintResolves
  /\ faults < MaxFaults
  /\ faults' = faults + 1
  /\ \E tries \in 1..2, physics \in BOOLEAN :
       /\ spawn_try' = [calls |-> SpawnCalls(CurrentBB.tf, tries), result |-> "raised"]
       /\ actors' = Put(actors, ActorH(CurrentBB.id, attempts'[CurrentBB.id]),
                        ActorState(spawn_try'.calls[tries], physics, FALSE))
  /\ failed_spawn_ids' = failed_spawn_ids \cup {CurrentBB.id}
  /\ UNCHANGED << pc, batchVars, recorderVars, weather, synchronous_mode,
                  blueprint_library, orig_sync, frame_idx, spawned_actors,
                  scans_saved, lidar_files, ticks, prevVars, exc, bpVars >>

\* The world after a successful spawn of the entry: physics off, transform
\* forced to the recorded pose whichever try succeeded.
Spawned(id, tf) == Put(actors, ActorH(id, attempts[id] + 1), ActorState(tf, FALSE, FALSE))

Track(id) == Put(spawned_actors, id, ActorH(id, attempts[id] + 1))

AttachesSensor == CurrentBB.class = "ego_vehicle" /\ lidar_sensor = NoneH

\* The spawn succeeds and no sensor is to be attached.
SpawnSucceeds ==
  /\ Attempt
  /\ BlueprintResolves
  /\ ~AttachesSensor
  /\ \E tries \in 1..2 :
       spawn_try' = [calls |-> SpawnCalls(CurrentBB.tf, tries), result |-> "actor"]
  /\ spawned_actors' = Track(CurrentBB.id)
  /\ actors' = Spawned(CurrentBB.id, CurrentBB.tf)
  /\ UNCHANGED << pc, batchVars, recorderVars, weather, synchronous_mode,
                  blueprint_library, orig_sync, frame_idx, failed_spawn_ids,
                  scans_saved, lidar_files, ticks, prevVars, exc, envVars >>

\* The spawn of an ego actor succeeds and setup_lidar_sensor attaches the
\* sensor and registers the callback.
SpawnAttachesSensor ==
  /\ Attempt
  /\ BlueprintResolves
  /\ AttachesSensor
  /\ \E tries \in 1..2 :
       spawn_try' = [calls |-> SpawnCalls(CurrentBB.tf, tries), result |-> "actor"]
  /\ spawned_actors' = Track(CurrentBB.id)
  /\ actors' = Put(Spawned(CurrentBB.id, CurrentBB.tf), SensorH(inst),
                   ActorState(RetryLift, FALSE, TRUE))
  /\ lidar_sensor' = SensorH(inst)
  /\ UNCHANGED << pc, batchVars, bufferVars, weather,
                  synchronous_mode, blueprint_library, orig_sync, frame_idx,
                  failed_spawn_ids, scans_saved, lidar_files, ticks, prevVars, exc, envVars >>

\* The spawn of an ego actor succeeds and setup_lidar_sensor raises, before
\* the sensor exists (find, set_attribute, spawn_actor) or in listen: the
\* actor is already in spawned_actors and the handler adds its id to
\* failed_spawn_ids.
SpawnSensorRaises ==
  /\ Attempt
  /\ BlueprintResolves
  /\ AttachesSensor
  /\ faults < MaxFaults
  /\ faults' = faults + 1
  /\ \E tries \in 1..2 :
       spawn_try' = [calls |-> SpawnCalls(CurrentBB.tf, tries), result |-> "raised"]
  /\ spawned_actors' = Track(CurrentBB.id)
  /\ \/ /\ actors' = Spawned(CurrentBB.id, CurrentBB.tf)
        /\ UNCHANGED lidar_sensor
     \/ /\ actors' = Put(Spawned(CurrentBB.id, CurrentBB.tf), SensorH(inst),
                         ActorState(RetryLift, FALSE, FALSE))
        /\ lidar_sensor' = SensorH(inst)
  /\ failed_spawn_ids' = failed_spawn_ids \cup {CurrentBB.id}
  /\ UNCHANGED << pc, batchVars, bufferVars, weather,
                  synchronous_mode, blueprint_library, orig_sync, frame_idx,
                  scans_saved, lidar_files, ticks, prevVars, exc, bpVars >>

\* ------------------------------------------------------- phantom objects
\* spawn_random_objects: num_objects tries; each spawns an actor or not, and
\* an exception inside a try is swallowed by its handler.
PhantomOutcomes == {"ok", "blocked", "physics_raises", "bbox_raises"}
PhantomFaults(outs) ==
  Cardinality({i \in 1..Len(outs) : outs[i] \in {"physics_raises", "bbox_raises"}})

RECURSIVE PhantomActors(_, _, _)
PhantomActors(outs, f, i) ==
  IF i > Len(outs) THEN <<>>
  ELSE (IF outs[i] \in {"ok", "bbox_raises"} THEN <<PhantomH(f, i - 1)>> ELSE <<>>)
       \o PhantomActors(outs, f, i + 1)

\* The characters of a decimal number.
DigitChars == << "0", "1", "2", "3", "4", "5", "6", "7", "8", "9" >>
Chars(n) == [k \in 1..Len(Digits(n)) |-> DigitChars[Digits(n)[k] + 1]]

\* An id that puts the two numbers one after the other, nothing between.
PhantomIdGlued(f, i) == << "random", "_" >> \o Chars(f) \o Chars(i)

\* f'random_{frame_idx}_{i}': the id of a phantom entry.
PhantomId(f, i) == << "random", "_" >> \o Chars(f) \o << "_" >> \o Chars(i)

RECURSIVE PhantomAnno(_, _, _)
PhantomAnno(outs, f, i) ==
  IF i > Len(outs) THEN <<>>
  ELSE (IF outs[i] = "ok"
          THEN << [class |-> "random_object", id |-> PhantomId(f, i - 1)] >>
          ELSE <<>>)
       \o PhantomAnno(outs, f, i + 1)

\* Every phantom actor the tries left in the world, tracked or not.
PhantomWorld(outs, f) ==
  [h \in DOMAIN actors \cup {PhantomH(f, i - 1) : i \in {j \in 1..Len(outs) : outs[j] # "blocked"}} |->
     IF h \in DOMAIN actors THEN actors[h]
     ELSE ActorState(ego_transform, h \in {PhantomH(f, j - 1) : j \in {k \in 1..Len(outs) : outs[k] = "physics_raises"}}, FALSE)]

ReconcileDone == pc = "reconcile" /\ bb_idx > Len(data.bounding_boxes)

SpawnRandomObjects ==
  /\ ReconcileDone
  /\ ego_transform # NoTransform
  /\ spawn_frequency[2] > 0
  /\ \E num_objects \in spawn_frequency[1]..spawn_frequency[2] :
       \E outs \in [1..num_objects -> PhantomOutcomes] :
         /\ faults + PhantomFaults(outs) <= MaxFaults
         /\ faults' = faults + PhantomFaults(outs)
         /\ random_actors' = PhantomActors(outs, frame_idx, 1)
         /\ random_objects_anno' = PhantomAnno(outs, frame_idx, 1)
         /\ actors' = PhantomWorld(outs, frame_idx)
  /\ pc' = "remove"
  /\ spawn_try' = NoTry
  /\ UNCHANGED << batchVars, recorderVars, weather, synchronous_mode,
                  blueprint_library, orig_sync, data, bb_idx,
                  current_frame_actor_ids, ego_transform, anno_new, anno_original, scan_written,
                  replayVars,
                  exc, bpVars >>

SkipRandomObjects ==
  /\ ReconcileDone
  /\ ~(ego_transform # NoTransform /\ spawn_frequency[2] > 0)
  /\ pc' = "remove"
  /\ spawn_try' = NoTry
  /\ UNCHANGED << batchVars, recorderVars, worldVars, data, bb_idx,
                  current_frame_actor_ids, ego_transform, random_objects_anno,
                  random_actors, anno_new, anno_original, scan_written, replayVars,
                  exc, envVars >>

\* ------------------------------------------- removal, weather, tick, scan
\* A removal loop that finds nothing to remove.
NoRemoval == {}

actors_to_remove == DOMAIN spawned_actors \ current_frame_actor_ids

\* A removal loop that destroys the actors and leaves their entries in the
\* mapping.
RemoveAbsentKeepsEntry ==
  /\ pc = "remove"
  /\ actors' = Drop(actors, {spawned_actors[aid] : aid \in actors_to_remove})
  /\ pc' = "weather"
  /\ UNCHANGED << batchVars, recorderVars, weather, synchronous_mode,
                  blueprint_library, orig_sync, frameVars, replayVars,
                  exc, envVars >>

\* The removal loop: each tracked actor whose id the frame does not list is
\* destroyed and its entry deleted.
RemoveAbsent ==
  /\ pc = "remove"
  /\ actors' = Drop(actors, {spawned_actors[aid] : aid \in actors_to_remove})
  /\ spawned_actors' = Drop(spawned_actors, actors_to_remove)
  /\ pc' = "weather"
  /\ UNCHANGED << batchVars, recorderVars, weather, synchronous_mode,
                  blueprint_library, orig_sync, frameVars, frame_idx,
                  failed_spawn_ids, scans_saved, lidar_files, attempts, ticks, prevVars,
                  exc, envVars >>

\* A weather step that sets the weather only while the world still has the
\* weather it was loaded with.
ApplyWeatherOnce ==
  /\ pc = "weather"
  /\ weather' = IF weather = DefaultWeather THEN data.weather ELSE weather
  /\ ticks' = ticks + 1
  /\ pc' = "scan"
  /\ UNCHANGED << batchVars, recorderVars, actors, synchronous_mode,
                  blueprint_library, orig_sync, frameVars, frame_idx,
                  spawned_actors, failed_spawn_ids, scans_saved, lidar_files, attempts,
                  prevVars, exc, envVars >>

\* world.set_weather with the frame's weather block, then world.tick().
\* A weather step that ticks the world twice.
ApplyWeatherAndTickTwice ==
  /\ pc = "weather"
  /\ weather' = data.weather
  /\ ticks' = ticks + 2
  /\ pc' = "scan"
  /\ UNCHANGED << batchVars, recorderVars, actors, synchronous_mode,
                  blueprint_library, orig_sync, frameVars, frame_idx,
                  spawned_actors, failed_spawn_ids, scans_saved, lidar_files, attempts,
                  prevVars, exc, envVars >>

ApplyWeatherAndTick ==
  /\ pc = "weather"
  /\ weather' = data.weather
  /\ ticks' = ticks + 1
  /\ pc' = "scan"
  /\ UNCHANGED << batchVars, recorderVars, actors, synchronous_mode,
                  blueprint_library, orig_sync, frameVars, frame_idx,
                  spawned_actors, failed_spawn_ids, scans_saved, lidar_files, attempts,
                  prevVars, exc, envVars >>

ScanReady ==
  lidar_sensor # NoneH /\ lidar_data_ready /\ current_lidar_data # NoSample

NameWidth == 5

\* A naming that numbers the scan files by the count of scans saved so far.
ScanNameByCount(idx) == ZeroPad(Digits(scans_saved), NameWidth)

\* f"{frame_idx:05d}.laz": the stem of the scan file of a frame.
ScanName(idx) == ZeroPad(Digits(idx), NameWidth)

\* The stems of the annotation files the glob finds in the instance's anno
\* directory, in no order: the recorded frames need not be numbered without
\* gaps.
AnnoDir == {ZeroPad(Digits(2 * k + 1), NameWidth) : k \in 0..(FileCount - 1)}

\* The order of Python strings: by the first place where two names differ, a
\* proper prefix first.
RECURSIVE StrLess(_, _)
StrLess(a, b) ==
  IF b = <<>> THEN FALSE
  ELSE IF a = <<>> THEN TRUE
  ELSE IF Head(a) # Head(b) THEN Head(a) < Head(b)
  ELSE StrLess(Tail(a), Tail(b))

\* sorted(names): the names in ascending order.
RECURSIVE sorted(_)
sorted(names) ==
  IF names = {} THEN <<>>
  ELSE LET first == CHOOSE x \in names : \A y \in names \ {x} : StrLess(x, y)
       IN  << first >> \o sorted(names \ {first})

\* anno_files = sorted(glob.glob(...)), and the file enumerate pairs with
\* frame_idx.
anno_files == sorted(AnnoDir)
anno_file == anno_files[frame_idx + 1]

\* What the body of save_lidar_scan meets: the file is written, or one of its
\* steps raises.
ScanOutcomes == {"written", "mkdir_raises", "header_raises", "write_raises"}

\* The value save_lidar_scan returns: True after the write, False from the
\* handler that catches every Exception of the body.
save_lidar_scan(outcome) == outcome = "written"

\* The same step with a writer that lets the exception of a failed step out.
SaveScanPropagates ==
  /\ pc = "scan"
  /\ ScanReady
  /\ \E outcome \in ScanOutcomes :
       IF outcome = "written"
         THEN /\ scans_saved' = scans_saved + 1
              /\ lidar_files' = lidar_files \cup {ScanName(frame_idx)}
              /\ slot_written' = TRUE
              /\ scan_written' = current_lidar_data
              /\ lidar_data_ready' = FALSE
              /\ pc' = "write_anno"
              /\ exc' = exc
         ELSE /\ exc' = "error"
              /\ pc' = "cleanup"
              /\ UNCHANGED << scans_saved, lidar_files, scan_written, lidar_data_ready,
                              slot_written >>
  /\ UNCHANGED << batchVars, lidar_sensor, current_lidar_data, delivered, replaced, cb_pc,
                  worldVars, data, bb_idx, current_frame_actor_ids, ego_transform,
                  random_objects_anno, random_actors, anno_new, anno_original, spawn_try,
                  frame_idx, spawned_actors, failed_spawn_ids,
                  attempts, ticks, prevVars, envVars >>

\* The buffer is handed to save_lidar_scan, which returns True or False, and
\* the ready flag is cleared.
SaveScan ==
  /\ pc = "scan"
  /\ ScanReady
  /\ \E outcome \in ScanOutcomes :
       /\ scans_saved' = IF save_lidar_scan(outcome) THEN scans_saved + 1
                                                     ELSE scans_saved
       /\ lidar_files' = IF outcome = "written" THEN lidar_files \cup {ScanName(frame_idx)}
                                              ELSE lidar_files
       /\ slot_written' = (outcome = "written" \/ slot_written)
       /\ scan_written' = IF outcome = "written" THEN current_lidar_data
                                                  ELSE NoSample
  /\ lidar_data_ready' = FALSE
  /\ pc' = "write_anno"
  /\ UNCHANGED << batchVars, lidar_sensor, current_lidar_data, delivered, replaced, cb_pc,
                  worldVars, data, bb_idx, current_frame_actor_ids, ego_transform,
                  random_objects_anno, random_actors, anno_new, anno_original, spawn_try,
                  frame_idx, spawned_actors, failed_spawn_ids,
                  attempts, ticks, prevVars, exc, envVars >>

SkipScanAborts ==
  /\ pc = "scan"
  /\ ~ScanReady
  /\ exc' = "error"
  /\ pc' = "cleanup"
  /\ UNCHANGED << batchVars, recorderVars, worldVars, frameVars, replayVars,
                  envVars >>

SkipScan ==
  /\ pc = "scan"
  /\ ~ScanReady
  /\ pc' = "write_anno"
  /\ UNCHANGED << batchVars, recorderVars, worldVars, frameVars, replayVars,
                  exc, envVars >>

\* An annotation writer that appends one entry of its own to every frame.
new_data_padded ==
  [data EXCEPT !.bounding_boxes =
     data.bounding_boxes \o random_objects_anno
       \o << [class |-> "random_object", id |-> PhantomId(frame_idx, 0)] >>]

\* An annotation writer that puts the phantom entries in front.
new_data_phantoms_first ==
  [data EXCEPT !.bounding_boxes = random_objects_anno \o data.bounding_boxes]

\* The copy of the frame's annotation with the phantom entries appended to
\* its bounding_boxes.
new_data == [data EXCEPT !.bounding_boxes = data.bounding_boxes \o random_objects_anno]

\* The end of a frame: the augmented annotation is written to anno_new, the
\* frame's phantom actors are destroyed, a failed destroy being swallowed,
\* and the loop moves to the next file.
FrameEnd ==
  /\ \E kept \in SUBSET Range(random_actors) :
       /\ faults + Cardinality(kept) <= MaxFaults
       /\ faults' = faults + Cardinality(kept)
       /\ actors' = Drop(actors, Range(random_actors) \ kept)
  /\ anno_new' = new_data
  /\ frame_idx' = frame_idx + 1
  /\ pc' = "read"
  /\ UNCHANGED << inst, inputVars, started, fatal, recorderVars, weather,
                  synchronous_mode, blueprint_library, orig_sync, data, bb_idx,
                  current_frame_actor_ids, ego_transform, random_objects_anno,
                  random_actors, anno_original, scan_written, spawn_try,
                  spawned_actors, failed_spawn_ids, scans_saved, lidar_files, attempts,
                  ticks, prevVars, exc, bpVars >>

FinishFrame ==
  /\ pc = "write_anno"
  /\ FrameEnd
  /\ UNCHANGED interrupt_inst

\* The interrupt arrives inside the try of the phantom cleanup loop, whose
\* bare `except:` catches it: the loop goes on and the frame ends as usual.
FinishFrameInterrupted ==
  /\ pc = "write_anno"
  /\ random_actors # <<>>
  /\ interrupt_inst = 0
  /\ interrupt_inst' = inst
  /\ FrameEnd

\* ------------------------------------------------------------ exceptions
\* Positions of the try block where an exception leaves it: file input and
\* output, and every simulator call outside the per-actor handlers.
TryPcs == {"read", "reconcile", "remove", "weather", "scan", "write_anno"}

\* The scan step calls nothing that raises an Exception: the flag test, the
\* save (which catches its own) and the sleep.
ErrorPcs == TryPcs \ {"scan"}

RaiseError ==
  /\ pc \in ErrorPcs
  /\ faults < MaxFaults
  /\ faults' = faults + 1
  /\ exc' = "error"
  /\ pc' = "cleanup"
  /\ UNCHANGED << batchVars, recorderVars, worldVars, frameVars, replayVars, bpVars >>

\* The interrupt arrives in the try block: KeyboardInterrupt passes every
\* `except Exception` handler.
Interrupt ==
  /\ pc \in TryPcs
  /\ interrupt_inst = 0
  /\ interrupt_inst' = inst
  /\ exc' = "interrupt"
  /\ pc' = "cleanup"
  /\ UNCHANGED << inst, inputVars, started, fatal, recorderVars,
                  worldVars, frameVars, replayVars, envVars >>

\* ------------------------------------------------------ the finally block
TrackedHandles == {spawned_actors[id] : id \in DOMAIN spawned_actors}

\* A cleanup that gives up at the first call that raises: when stopping or
\* destroying the sensor fails, no tracked actor is destroyed.
CleanupStopsAtFailure ==
  /\ pc = "cleanup"
  /\ \/ /\ lidar_sensor = NoneH
        /\ actors' = Drop(actors, TrackedHandles)
        /\ UNCHANGED << lidar_sensor, faults >>
     \/ /\ lidar_sensor # NoneH
        /\ actors' = Drop(actors, TrackedHandles \cup {lidar_sensor})
        /\ lidar_sensor' = NoneH
        /\ UNCHANGED faults
     \/ /\ lidar_sensor # NoneH
        /\ faults + 1 <= MaxFaults
        /\ faults' = faults + 1
        /\ UNCHANGED << actors, lidar_sensor >>
  /\ synchronous_mode' = FALSE
  /\ pc' = "returned"
  /\ UNCHANGED << batchVars, bufferVars, weather,
                  blueprint_library, orig_sync, frameVars, replayVars, exc, bpVars >>

\* The sensor is stopped and destroyed and the field reset, or stop or
\* destroy raises and the field keeps the handle; every tracked actor is
\* destroyed, a failed destroy being swallowed; the world is set to
\* asynchronous mode.
Cleanup ==
  /\ pc = "cleanup"
  /\ \E kept \in SUBSET TrackedHandles :
       \/ /\ lidar_sensor = NoneH
          /\ faults + Cardinality(kept) <= MaxFaults
          /\ faults' = faults + Cardinality(kept)
          /\ actors' = Drop(actors, TrackedHandles \ kept)
          /\ UNCHANGED lidar_sensor
       \/ /\ lidar_sensor # NoneH
          /\ faults + Cardinality(kept) <= MaxFaults
          /\ faults' = faults + Cardinality(kept)
          /\ actors' = Drop(actors, (TrackedHandles \ kept) \cup {lidar_sensor})
          /\ lidar_sensor' = NoneH
       \/ /\ lidar_sensor # NoneH
          /\ faults + Cardinality(kept) + 1 <= MaxFaults
          /\ faults' = faults + Cardinality(kept) + 1
          /\ \E stopped \in BOOLEAN :
               actors' = [h \in DOMAIN actors \ (TrackedHandles \ kept) |->
                            IF h = lidar_sensor /\ stopped
                              THEN [actors[h] EXCEPT !.listening = FALSE]
                              ELSE actors[h]]
          /\ UNCHANGED lidar_sensor
  /\ synchronous_mode' = FALSE
  /\ pc' = "returned"
  /\ UNCHANGED << batchVars, bufferVars, weather,
                  blueprint_library, orig_sync, frameVars, replayVars, exc, bpVars >>

\* --------------------------------------------------- run(), after a replay
\* A driver whose handler leaves the loop on an Exception instead of going on.
ReplayReturnedBreaks ==
  /\ pc = "returned"
  /\ exc \in {"none", "error"}
  /\ fatal' = IF exc = "error" THEN fatal \cup {inst} ELSE fatal
  /\ inst' = IF exc = "error" THEN inst ELSE inst + 1
  /\ FreshLocals
  /\ pc' = IF exc = "error" THEN "finished" ELSE "run_loop"
  /\ UNCHANGED << inputVars, started, interrupt_inst, recorderVars,
                  worldVars, envVars >>

\* The call returned scans_saved, or raised an Exception that run() prints:
\* the loop goes to the next instance.
ReplayReturned ==
  /\ pc = "returned"
  /\ exc \in {"none", "error"}
  /\ fatal' = IF exc = "error" THEN fatal \cup {inst} ELSE fatal
  /\ inst' = inst + 1
  /\ FreshLocals
  /\ pc' = "run_loop"
  /\ UNCHANGED << inputVars, started, interrupt_inst, recorderVars,
                  worldVars, envVars >>

\* The call raised KeyboardInterrupt: run() breaks out of the loop.
ReplayInterrupted ==
  /\ pc = "returned"
  /\ exc = "interrupt"
  /\ FreshLocals
  /\ pc' = "finished"
  /\ UNCHANGED << batchVars, recorderVars, worldVars, envVars >>

RunEnd ==
  /\ pc = "run_loop"
  /\ inst > n_instances
  /\ pc' = "finished"
  /\ UNCHANGED << batchVars, recorderVars, worldVars, frameVars, replayVars,
                  exc, envVars >>

\* ------------------------------------------------------- sensor callback
\* The point cloud a sensor measures: the sensor attached in a given instance
\* and the number of world ticks of the replay so far.
Sample(sensor, tick) == sensor * (MaxFrames + 1) + tick + 1
SensorOf(sample) == (sample - 1) \div (MaxFrames + 1)

\* A callback that leaves an unconsumed sample in the slot.
LidarCallbackKeeps ==
  /\ pc \notin {"finished", "bp"}
  /\ \E h \in DOMAIN actors :
       /\ h.kind = "sensor"
       /\ actors[h].listening
       /\ delivered' = Sample(h.n, ticks)
       /\ replaced' = (lidar_data_ready /\ current_lidar_data # Sample(h.n, ticks))
       /\ current_lidar_data' = IF lidar_data_ready THEN current_lidar_data
                                ELSE Sample(h.n, ticks)
  /\ lidar_data_ready' = TRUE
  /\ slot_written' = (lidar_data_ready /\ slot_written)
  /\ cb_pc' = cb_pc
  /\ UNCHANGED << pc, batchVars, lidar_sensor, worldVars, frameVars, replayVars,
                  exc, envVars >>

\* A listening sensor delivers a sample: the slot is overwritten and the
\* ready flag set.
LidarCallback ==
  /\ pc \notin {"finished", "bp"}
  /\ \E h \in DOMAIN actors :
       /\ h.kind = "sensor"
       /\ actors[h].listening
       /\ delivered' = Sample(h.n, ticks)
       /\ replaced' = (lidar_data_ready /\ current_lidar_data # Sample(h.n, ticks))
       /\ current_lidar_data' = Sample(h.n, ticks)
  /\ lidar_data_ready' = TRUE
  /\ slot_written' = FALSE
  /\ cb_pc' = cb_pc
  /\ UNCHANGED << pc, batchVars, lidar_sensor, worldVars, frameVars, replayVars,
                  exc, envVars >>

Next ==
  \/ ReplayRejected \/ ReplayBegin \/ ReadFrame \/ LoopEnd
  \/ UpdateTracked \/ SkipFailed \/ SpawnFails \/ SpawnLeaks
  \/ SpawnSucceeds \/ SpawnAttachesSensor \/ SpawnSensorRaises
  \/ SpawnRandomObjects \/ SkipRandomObjects
  \/ RemoveAbsent \/ ApplyWeatherAndTick \/ SaveScan \/ SkipScan
  \/ FinishFrame \/ FinishFrameInterrupted
  \/ RaiseError \/ Interrupt
  \/ Cleanup \/ ReplayReturned \/ ReplayInterrupted \/ RunEnd
  \/ LidarCallback

Spec == Init /\ [][Next]_vars

\* The batch without phantom objects: the steps that spawn and destroy them
\* never run.
NextBatch ==
  \/ ReplayRejected \/ ReplayBegin \/ ReadFrame \/ LoopEnd
  \/ UpdateTracked \/ SkipFailed \/ SpawnFails \/ SpawnLeaks
  \/ SpawnSucceeds \/ SpawnAttachesSensor \/ SpawnSensorRaises
  \/ SkipRandomObjects
  \/ RemoveAbsent \/ ApplyWeatherAndTick \/ SaveScan \/ SkipScan
  \/ FinishFrame
  \/ RaiseError \/ Interrupt
  \/ Cleanup \/ ReplayReturned \/ ReplayInterrupted \/ RunEnd
  \/ LidarCallback

SpecBatch == InitBatch /\ [][NextBatch]_vars

\* One instance of the batch directory, replayed with the sensor's callback.
InitScan ==
  /\ InitCommon
  /\ pc = "run_loop"
  /\ n_instances = 1
  /\ dataset = "ego"
  /\ spawn_frequency = <<0, 0>>
  /\ bp_in = NoBp
  /\ scan_in = NoScan
  /\ validation = NoValidation
  /\ conversion = NoConversion

SpecScan == InitScan /\ [][NextBatch]_vars

\* ------------------------------------- the callback and the loop, by statement
\* lidar_callback, first assignment: the sensor's thread stores the sample in
\* the slot.
CallbackStore ==
  /\ pc \notin {"finished", "bp"}
  /\ cb_pc = "idle"
  /\ \E h \in DOMAIN actors :
       /\ h.kind = "sensor"
       /\ actors[h].listening
       /\ delivered' = Sample(h.n, ticks)
       /\ replaced' = (lidar_data_ready /\ current_lidar_data # Sample(h.n, ticks))
       /\ current_lidar_data' = Sample(h.n, ticks)
  /\ slot_written' = FALSE
  /\ cb_pc' = "stored"
  /\ UNCHANGED << pc, batchVars, lidar_sensor, lidar_data_ready, worldVars, frameVars,
                  replayVars, exc, envVars >>

\* lidar_callback, second assignment: the ready flag is set.
CallbackFlag ==
  /\ pc # "bp"
  /\ cb_pc = "stored"
  /\ lidar_data_ready' = TRUE
  /\ cb_pc' = "idle"
  /\ UNCHANGED << pc, batchVars, lidar_sensor, current_lidar_data, delivered, replaced,
                  slot_written, worldVars, frameVars, replayVars, exc, envVars >>

\* The loop tests the sensor, sleeps and tests the flag and the slot.
ScanTest ==
  /\ pc = "scan"
  /\ ScanReady
  /\ pc' = "scan_save"
  /\ UNCHANGED << batchVars, recorderVars, worldVars, frameVars, replayVars,
                  exc, envVars >>

\* The loop reads the slot and hands what it holds to save_lidar_scan.
ScanSave ==
  /\ pc = "scan_save"
  /\ \E outcome \in ScanOutcomes :
       /\ scans_saved' = IF save_lidar_scan(outcome) THEN scans_saved + 1
                                                     ELSE scans_saved
       /\ lidar_files' = IF outcome = "written" THEN lidar_files \cup {ScanName(frame_idx)}
                                              ELSE lidar_files
       /\ slot_written' = (outcome = "written" \/ slot_written)
       /\ scan_written' = IF outcome = "written" THEN current_lidar_data
                                                  ELSE NoSample
  /\ pc' = "scan_clear"
  /\ UNCHANGED << batchVars, lidar_sensor, current_lidar_data, lidar_data_ready,
                  delivered, replaced, cb_pc,
                  worldVars, data, bb_idx, current_frame_actor_ids, ego_transform,
                  random_objects_anno, random_actors, anno_new, anno_original, spawn_try,
                  frame_idx, spawned_actors, failed_spawn_ids,
                  attempts, ticks, prevVars, exc, envVars >>

\* The loop clears the ready flag.
ScanClear ==
  /\ pc = "scan_clear"
  /\ lidar_data_ready' = FALSE
  /\ pc' = "write_anno"
  /\ UNCHANGED << batchVars, lidar_sensor, current_lidar_data, delivered, replaced,
                  cb_pc, slot_written, worldVars, frameVars, replayVars, exc, envVars >>

NextRace ==
  \/ ReplayRejected \/ ReplayBegin \/ ReadFrame \/ LoopEnd
  \/ UpdateTracked \/ SkipFailed \/ SpawnFails \/ SpawnLeaks
  \/ SpawnSucceeds \/ SpawnAttachesSensor \/ SpawnSensorRaises
  \/ SkipRandomObjects
  \/ RemoveAbsent \/ ApplyWeatherAndTick \/ ScanTest \/ ScanSave \/ ScanClear
  \/ SkipScan
  \/ FinishFrame
  \/ RaiseError \/ Interrupt
  \/ Cleanup \/ ReplayReturned \/ ReplayInterrupted \/ RunEnd
  \/ CallbackStore \/ CallbackFlag

\* One instance with the callback and the scan step taken statement by
\* statement, the two threads interleaving between statements.
SpecRace == InitScan /\ [][NextRace]_vars

\* One instance with either phantom range; the sensor delivers no sample
\* while the replay runs.
NextPhantom ==
  \/ ReplayRejected \/ ReplayBegin \/ ReadFrame \/ LoopEnd
  \/ UpdateTracked \/ SkipFailed \/ SpawnFails \/ SpawnLeaks
  \/ SpawnSucceeds \/ SpawnAttachesSensor \/ SpawnSensorRaises
  \/ SpawnRandomObjects \/ SkipRandomObjects
  \/ RemoveAbsent \/ ApplyWeatherAndTick \/ SkipScan
  \/ FinishFrame \/ FinishFrameInterrupted
  \/ RaiseError \/ Interrupt
  \/ Cleanup \/ ReplayReturned \/ ReplayInterrupted \/ RunEnd

SpecPhantom == InitPhantom /\ [][NextPhantom]_vars

\* One instance replayed over the full frames; the phantom range is (0, 0)
\* and the sensor delivers no sample while the replay runs.
NextReplay ==
  \/ ReplayRejected \/ ReplayBegin \/ ReadFrame \/ LoopEnd
  \/ UpdateTracked \/ SkipFailed \/ SpawnFails \/ SpawnLeaks
  \/ SpawnSucceeds \/ SpawnAttachesSensor \/ SpawnSensorRaises
  \/ SkipRandomObjects
  \/ RemoveAbsent \/ ApplyWeatherAndTick \/ SkipScan
  \/ FinishFrame
  \/ RaiseError
  \/ Cleanup \/ ReplayReturned \/ RunEnd

SpecReplay == InitReplay /\ [][NextReplay]_vars

\* The same steps over frames that may list an id twice.
SpecDup == InitDup /\ [][NextReplay]_vars

\* ------------------------------------------- blueprint resolution alone
InitBlueprint ==
  /\ InitCommon
  /\ pc = "bp"
  /\ n_instances = 1
  /\ dataset = "ego"
  /\ spawn_frequency = <<0, 0>>
  /\ \E c \in Classes, t \in TypeIds, l \in SUBSET AllBlueprints :
       bp_in = [class |-> c, type_id |-> t, lib |-> l]
  /\ scan_in = NoScan
  /\ validation = NoValidation
  /\ conversion = NoConversion

\* One call of get_blueprint.
Resolve ==
  /\ pc = "bp"
  /\ bp_out = ""
  /\ bp_out' = get_blueprint(bp_in.lib, bp_in.class, bp_in.type_id)
  /\ UNCHANGED << pc, bp_in, scanVars, faults, batchVars, recorderVars, worldVars,
                  frameVars, replayVars, exc >>

SpecBlueprint == InitBlueprint /\ [][Resolve]_vars

\* ------------------------------------------------- scan file round trip
\* Coordinates are counted in units of 1/SubMm millimetre, intensities in
\* units of 1/IntensitySteps of the sensor's range [0, 1].
SubMm == 2
MaxCoord == 3
IntensitySteps == 4
IntensityMax == 65535
Uint16 == 65536

Coords == -MaxCoord .. MaxCoord
Intensities == 0 .. IntensitySteps

\* The rows the sensor callback hands over: (x, y, z) or (x, y, z, intensity).
Rows3 == {<<x, y, z>> : x \in Coords, y \in {0, 1}, z \in {-1, 0}}
Rows4 == {<<x, y, z, i>> : x \in Coords, y \in {0, 1}, z \in {-1, 0}, i \in Intensities}

\* Buffers of one or two rows of one shape.
Buffers ==
  {<<r>> : r \in Rows3} \cup {<<r, q>> : r \in Rows3, q \in Rows3}
    \cup {<<r>> : r \in Rows4} \cup {<<r, q>> : r \in Rows4, q \in Rows4}

Min(S) == CHOOSE m \in S : \A e \in S : m <= e
Abs(v) == IF v < 0 THEN -v ELSE v

\* np.round of a / b: to the nearest integer, halves to the even one.
RoundHalfEven(a, b) ==
  LET q == a \div b
      r == a % b
  IN  IF 2 * r < b THEN q
      ELSE IF 2 * r > b THEN q + 1
      ELSE IF q % 2 = 0 THEN q ELSE q + 1

\* A header scale of one centimetre in place of one millimetre.
scales_cm == 10 * SubMm

\* header.scales: 0.001 m on every axis.
scales == SubMm

\* header.offsets: the minimum of each coordinate column.
offsets(lidar_data) ==
  [c \in 1..3 |-> Min({lidar_data[r][c] : r \in 1..Len(lidar_data)})]

\* las.x = ..., las.y = ..., las.z = ...: the stored integer of a coordinate.
RemoveScale(v, offset) == RoundHalfEven(v - offset, scales)

\* las.x, las.y, las.z read: the coordinate of a stored integer.
ApplyScale(X, offset) == X * scales + offset

\* (intensity * 65535).astype(np.uint16): the product cut to an integer and
\* kept modulo 2^16.
RescaleIntensity(i) == ((i * IntensityMax) \div IntensitySteps) % Uint16

\* The file save_lidar_scan writes for a buffer with at least one row; the
\* intensity field of the point format stays zero when the buffer has none.
LasFile(lidar_data) ==
  LET off == offsets(lidar_data)
  IN  [offsets |-> off,
       XYZ |-> [r \in 1..Len(lidar_data) |->
                  [c \in 1..3 |-> RemoveScale(lidar_data[r][c], off[c])]],
       intensity |-> [r \in 1..Len(lidar_data) |->
                        IF Len(lidar_data[r]) > 3
                          THEN RescaleIntensity(lidar_data[r][4])
                          ELSE 0]]

\* load_laz_file: the scaled coordinates and the stored intensities.
load_laz_file(las) ==
  [points |-> [r \in 1..Len(las.XYZ) |->
                 [c \in 1..3 |-> ApplyScale(las.XYZ[r][c], las.offsets[c])]],
   intensity |-> las.intensity]

InitRoundTrip ==
  /\ InitCommon
  /\ pc = "rt_write"
  /\ n_instances = 1
  /\ dataset = "ego"
  /\ spawn_frequency = <<0, 0>>
  /\ bp_in = NoBp
  /\ scan_in \in Buffers \cup {NoScan}
  /\ validation = NoValidation
  /\ conversion = NoConversion

\* save_lidar_scan on the buffer: an empty buffer has no minimum, the
\* exception is caught and no file is written.
WriteScan ==
  /\ pc = "rt_write"
  /\ IF Len(scan_in) = 0
       THEN /\ pc' = "rt_done"
            /\ scan_file' = NoScan
       ELSE /\ pc' = "rt_read"
            /\ scan_file' = << LasFile(scan_in) >>
  /\ UNCHANGED << scan_in, scan_out, bp_in, bp_out, faults, batchVars,
                  recorderVars, worldVars, frameVars, replayVars, exc >>

\* load_laz_file on the written file.
ReadScan ==
  /\ pc = "rt_read"
  /\ scan_out' = << load_laz_file(scan_file[1]) >>
  /\ pc' = "rt_done"
  /\ UNCHANGED << scan_in, scan_file, bp_in, bp_out, faults, batchVars,
                  recorderVars, worldVars, frameVars, replayVars, exc >>

NextRoundTrip == WriteScan \/ ReadScan

SpecRoundTrip == InitRoundTrip /\ [][NextRoundTrip]_vars

\* ================================================================ properties
\* The ids listed by the frame in hand.
FrameIds == {data.bounding_boxes[i].id : i \in DOMAIN data.bounding_boxes}

\* The recorded pose of a listed id.
PoseOf(id) ==
  LET i == CHOOSE j \in DOMAIN data.bounding_boxes : data.bounding_boxes[j].id = id
  IN  data.bounding_boxes[i].tf

\* The loop has finished a frame and not yet read the next: data is still
\* that frame's annotation.
FrameProcessed == pc = "read" /\ frame_idx >= 1

EgoIds == {id \in Ids : ClassOf(id) = "ego_vehicle"}

\* C1: after a frame has been processed, the ids of spawned_actors are the
\* ids of the frame's bounding boxes minus the ids of failed_spawn_ids.
C1_LiveIsFrameMinusFailed ==
  FrameProcessed => DOMAIN spawned_actors = FrameIds \ failed_spawn_ids

\* C2, as the code has it: while an id is in failed_spawn_ids no spawn is
\* attempted for it; its attempt count never grows.
C2_FailedNeverRetried ==
  [][\A id \in Ids : id \in failed_spawn_ids => attempts'[id] <= attempts[id]]_vars

\* An id that failed in an earlier frame is listed again, its entry has been
\* passed, and it still has its one attempt and no actor.
C2_FailedSeenAgain ==
  \E id \in Ids :
    /\ id \in prev_failed
    /\ id \in current_frame_actor_ids
    /\ id \notin DOMAIN spawned_actors
    /\ attempts[id] = 1

\* C2 as stated: no id is attempted more than once in a replay.
C2_AtMostOneAttempt == \A id \in Ids : attempts[id] <= 1

\* C3: get_blueprint returns a blueprint for every class, type_id and
\* library; no exception leaves it.
C3_ResolutionTotal == bp_out # Raised

\* C4: when replay_and_save_scans is left and every destroy call it made
\* succeeded, no actor spawned during the replay is alive.
C4_AllReleased ==
  (pc = "returned" /\ faults = (IF exc = "error" THEN 1 ELSE 0)) => DOMAIN actors = {}

\* C5: when replay_and_save_scans is left, the world's stepping mode is the
\* mode the world had when it was loaded.
C5_SteppingModeRestored == pc = "returned" => synchronous_mode = orig_sync

\* C6, as the code has it: after a frame, an id live before it and listed in
\* it keeps its handle, alive and at the frame's pose; an id live before it
\* and not listed has its handle destroyed and is not tracked; an id listed
\* in it that was neither live nor failed before it has a handle no earlier
\* actor had, alive and at the frame's pose, or else has no handle and is in
\* failed_spawn_ids.
C6_HandlesFollowFrames ==
  FrameProcessed =>
    \A id \in Ids :
      /\ (id \in DOMAIN prev_actors /\ id \in FrameIds) =>
           /\ id \in DOMAIN spawned_actors
           /\ spawned_actors[id] = prev_actors[id]
           /\ spawned_actors[id] \in DOMAIN actors
           /\ actors[spawned_actors[id]].tf = PoseOf(id)
      /\ (id \in DOMAIN prev_actors /\ id \notin FrameIds) =>
           /\ id \notin DOMAIN spawned_actors
           /\ prev_actors[id] \notin DOMAIN actors
      /\ (id \notin DOMAIN prev_actors /\ id \notin prev_failed /\ id \in FrameIds) =>
           \/ /\ id \in DOMAIN spawned_actors
              /\ spawned_actors[id] = ActorH(id, attempts[id])
              /\ spawned_actors[id] \notin Range(prev_actors)
              /\ spawned_actors[id] \in DOMAIN actors
              /\ actors[spawned_actors[id]].tf = PoseOf(id)
           \/ /\ id \in failed_spawn_ids
              /\ id \notin DOMAIN spawned_actors

\* After the second frame or a later one, one id has kept its handle and
\* another one, not live before the frame, has a new handle.
C6_KeptAndCreated ==
  /\ FrameProcessed
  /\ frame_idx >= 2
  /\ \E a, b \in Ids :
       /\ a \in DOMAIN prev_actors /\ a \in DOMAIN spawned_actors
       /\ b \notin DOMAIN prev_actors /\ b \in DOMAIN spawned_actors
       /\ b \notin failed_spawn_ids

\* C6 as stated: every id that appears in a frame without having been live
\* or failed before it has a handle after the frame.
C6_EveryNewIdGetsHandle ==
  FrameProcessed =>
    \A id \in Ids :
      (id \notin DOMAIN prev_actors /\ id \notin prev_failed /\ id \in FrameIds) =>
        /\ id \in DOMAIN spawned_actors
        /\ spawned_actors[id] \in DOMAIN actors

\* C7: after a frame has been processed the world's weather is the weather
\* block of that frame.
C7_WeatherIsFrameWeather == FrameProcessed => weather = data.weather

\* A frame whose weather differs from the weather of the frame before it
\* has been processed.
C7_WeatherChanged ==
  /\ FrameProcessed
  /\ frame_idx >= 2
  /\ prev_weather \in Weathers
  /\ prev_weather # data.weather

\* C8: instances are started in order, a fatal failure of one instance
\* (early return None or an Exception leaving the replay) ends only that
\* instance, and a batch no interrupt arrived in has started every instance
\* when it finishes.
C8_BatchContinues ==
  /\ started \in {1..k : k \in 0..n_instances}
  /\ fatal \subseteq started
  /\ (pc = "finished" /\ interrupt_inst = 0) => started = 1..n_instances

\* A finished batch without interrupt in which an instance was abandoned and
\* the one after it was replayed to its end.
C8_ContinuedAfterFatal ==
  /\ pc = "finished"
  /\ interrupt_inst = 0
  /\ \E i \in fatal : (i + 1) \in started \ fatal

\* C9: once the interrupt has arrived during an instance, no later instance
\* is started.
C9_InterruptAborts == interrupt_inst # 0 => started \subseteq 1..interrupt_inst

\* C10: in every instance, after a frame in which an ego actor is tracked
\* whose spawn did not fail, the recorder holds a sensor attached in this
\* instance, alive and listening.
C10_SensorAttached ==
  (FrameProcessed /\ \E id \in EgoIds : id \in DOMAIN spawned_actors \ failed_spawn_ids) =>
    /\ lidar_sensor = SensorH(inst)
    /\ lidar_sensor \in DOMAIN actors

\* C11: once a frame has been processed no phantom actor is alive, whether or
\* not disabling its physics or reading its bounding box raised; the one
\* exception made here is a phantom whose destroy call itself raised (such a
\* phantom is in random_actors, so its physics is off).
C11_NoPhantomOutlivesFrame ==
  FrameProcessed =>
    \A h \in DOMAIN actors : h.kind = "phantom" => ~actors[h].physics

\* C12: with spawn_frequency (0, 0) no phantom actor exists, the frame has no
\* phantom entry, and the bounding_boxes written to anno_new for a frame are
\* the frame's own list.
C12_NoPhantomsWhenRangeZero ==
  spawn_frequency = <<0, 0>> =>
    /\ \A h \in DOMAIN actors : h.kind # "phantom"
    /\ random_actors = <<>>
    /\ random_objects_anno = <<>>
    /\ anno_new # NoFile => anno_new.bounding_boxes = data.bounding_boxes

\* With spawn_frequency (0, 0), a frame that lists the ego actor has been
\* processed and its annotation written.
C12_EgoFrameWritten ==
  /\ spawn_frequency = <<0, 0>>
  /\ FrameProcessed
  /\ ego_transform # NoTransform
  /\ anno_new # NoFile
  /\ anno_new.bounding_boxes # <<>>

\* One call of get_blueprint has returned or raised.
Resolved == pc = "bp" /\ bp_out # ""

Lincoln == "vehicle.lincoln.mkz_2020"

\* C13, as the code has it: a mesh-path type_id that contains 'Lincoln' and
\* none of the keys before it in the table ('Charger', 'FordCrown') is
\* looked up as the Lincoln blueprint for every class: the result is that
\* blueprint when the library holds it, and the lookup's exception otherwise.
C13_LincolnMesh ==
  (/\ Resolved
   /\ StartsWithGame(bp_in.type_id)
   /\ Contains(bp_in.type_id, "Lincoln")
   /\ ~Contains(bp_in.type_id, "Charger")
   /\ ~Contains(bp_in.type_id, "FordCrown"))
    => bp_out = (IF Lincoln \in bp_in.lib THEN Lincoln ELSE Raised)

\* A Lincoln mesh path given with class walker has resolved to the Lincoln
\* blueprint.
C13_WalkerLincoln ==
  /\ Resolved
  /\ bp_in.type_id = <<"/Game/", "Lincoln">>
  /\ bp_in.class = "walker"
  /\ bp_out = Lincoln

\* C13 as stated, for libraries that hold the Lincoln blueprint: every
\* mesh-path type_id containing 'Lincoln' resolves to it.
C13_AnyLincolnMesh ==
  (/\ Resolved
   /\ Lincoln \in bp_in.lib
   /\ StartsWithGame(bp_in.type_id)
   /\ Contains(bp_in.type_id, "Lincoln"))
    => bp_out = Lincoln

\* C14: the recorder holds one sample: after every call of lidar_callback
\* the slot holds the sample of that call, whatever it held before, and the
\* ready flag is set only while the slot holds a sample.
C14_LastWriteWins ==
  /\ current_lidar_data = delivered
  /\ lidar_data_ready => current_lidar_data # NoSample

\* A sample arrived while another one was waiting unconsumed: the slot holds
\* the later one.
C14_UnconsumedReplaced ==
  /\ replaced
  /\ lidar_data_ready
  /\ current_lidar_data = delivered

\* C15: when the loop tests the ready flag and the callback has not set it, no
\* scan file is written for that frame, no error is raised, and the loop goes
\* on to write the annotation and read the next frame (an interrupt from the
\* keyboard aside).
C15_NoSampleNoScan ==
  [][ (pc = "scan" /\ ~lidar_data_ready /\ pc' # "scan")
        => \/ /\ pc' = "write_anno"
              /\ scan_written' = NoSample
              /\ scans_saved' = scans_saved
              /\ exc' = "none"
           \/ exc' = "interrupt" ]_vars

C15_SkippedAndContinued ==
  /\ FrameProcessed
  /\ frame_idx < FileCount
  /\ lidar_sensor = SensorH(inst)
  /\ delivered = NoSample
  /\ scan_written = NoSample
  /\ scans_saved = 0
  /\ exc = "none"

\* C16: save_lidar_scan lets no exception out: whatever step of it fails, the
\* replay takes the result as False, counts no scan and has no file, and goes
\* on to the annotation of the frame; the scan is counted exactly when the
\* file was written.
C16_SaveNeverRaises ==
  [][ (pc = "scan" /\ ScanReady /\ pc' # "scan")
        => \/ /\ pc' = "write_anno"
              /\ exc' = "none"
              /\ ~lidar_data_ready'
              /\ \/ scans_saved' = scans_saved + 1 /\ scan_written' = current_lidar_data
                 \/ scans_saved' = scans_saved /\ scan_written' = NoSample
           \/ exc' = "interrupt" ]_vars

C16_ContinuedAfterFalse ==
  /\ FrameProcessed
  /\ frame_idx = 1
  /\ delivered = Sample(inst, 1)
  /\ ~lidar_data_ready
  /\ scan_written = NoSample
  /\ scans_saved = 0
  /\ exc = "none"

\* C17: a buffer written by save_lidar_scan and read back by load_laz_file
\* gives every coordinate within one millimetre of the one written and, when
\* the buffer has an intensity column, every intensity within one step of the
\* 16-bit rescale.
C17_RoundTrip ==
  (pc = "rt_done" /\ scan_out # NoScan) =>
    \A r \in 1..Len(scan_in) :
      /\ \A c \in 1..3 : Abs(scan_out[1].points[r][c] - scan_in[r][c]) <= SubMm
      /\ Len(scan_in[r]) > 3 =>
           Abs(scan_out[1].intensity[r] * IntensitySteps
                 - scan_in[r][4] * IntensityMax) <= IntensitySteps

C17_ReadBackInexact ==
  /\ pc = "rt_done"
  /\ scan_out # NoScan
  /\ Len(scan_in) = 2
  /\ Len(scan_in[1]) > 3
  /\ \E r \in 1..2 :
       /\ scan_out[1].points[r][1] # scan_in[r][1]
       /\ scan_out[1].intensity[r] * IntensitySteps # scan_in[r][4] * IntensityMax

\* C18: an attempt calls try_spawn_actor first at the recorded transform and,
\* only after that call returned no actor, once more RetryLift higher: never
\* more than twice; the id joins failed_spawn_ids exactly when both calls
\* returned no actor or an exception was raised during the attempt.
C18_SpawnTries ==
  [][ (InReconcile /\ attempts' # attempts) =>
        /\ spawn_try'.result \in {"actor", "blocked", "raised"}
        /\ Len(spawn_try'.calls) <= 2
        /\ Len(spawn_try'.calls) >= 1 => spawn_try'.calls[1] = CurrentBB.tf
        /\ Len(spawn_try'.calls) = 2 =>
             spawn_try'.calls[2] = CurrentBB.tf + RetryLift
        /\ spawn_try'.result = "blocked" => Len(spawn_try'.calls) = 2
        /\ spawn_try'.result = "actor" => Len(spawn_try'.calls) >= 1
        /\ CurrentBB.id \notin failed_spawn_ids
        /\ (CurrentBB.id \in failed_spawn_ids')
             <=> spawn_try'.result \in {"blocked", "raised"} ]_vars

C18_RetrySpawned ==
  /\ pc = "reconcile"
  /\ spawn_try.result = "actor"
  /\ Len(spawn_try.calls) = 2
  /\ spawn_try.calls[2] = spawn_try.calls[1] + RetryLift
  /\ failed_spawn_ids # {}

\* C19: when try_spawn_actor returns an actor for an entry, at the first try
\* or at the raised one, that actor has physics off and stands at the pose
\* recorded in the frame once the entry has been handled, hence before the
\* tick of the frame.
C19_SpawnedFrozenAtPose ==
  [][ (InReconcile /\ attempts' # attempts) =>
        LET h == ActorH(CurrentBB.id, attempts'[CurrentBB.id])
        IN  h \in DOMAIN actors' =>
              /\ ~actors'[h].physics
              /\ actors'[h].tf = CurrentBB.tf ]_vars

\* The pose of the last entry of the frame in hand for a listed id.
LastPoseOf(id) ==
  LET js == {j \in DOMAIN data.bounding_boxes : data.bounding_boxes[j].id = id}
      last == CHOOSE j \in js : \A k \in js : k <= j
  IN  data.bounding_boxes[last].tf

\* C20: at the tick of a frame every tracked actor that is alive is listed in
\* the frame and stands at the pose of its last entry there, whatever pose it
\* had before.
C20_PoseAtTick ==
  [][ ticks' = ticks + 1 =>
        \A id \in DOMAIN spawned_actors :
          spawned_actors[id] \in DOMAIN actors =>
            /\ id \in FrameIds
            /\ actors[spawned_actors[id]].tf = LastPoseOf(id) ]_vars

C20_TickedAtLastEntry ==
  /\ pc = "scan"
  /\ frame_idx >= 1
  /\ exc = "none"
  /\ \E id \in DOMAIN spawned_actors \cap DOMAIN prev_actors :
       /\ spawned_actors[id] = prev_actors[id]
       /\ spawned_actors[id] \in DOMAIN actors
       /\ \E i, j \in DOMAIN data.bounding_boxes :
            /\ i < j
            /\ data.bounding_boxes[i].id = id
            /\ data.bounding_boxes[j].id = id
            /\ data.bounding_boxes[i].tf # data.bounding_boxes[j].tf
            /\ actors[spawned_actors[id]].tf = data.bounding_boxes[j].tf

\* C21: at every world tick the mapping holds no id that the frame in hand
\* does not list, and every actor that was tracked before the frame for such
\* an id has been destroyed.
C21_AbsentRemovedBeforeTick ==
  [][ ticks' = ticks + 1 =>
        /\ DOMAIN spawned_actors \subseteq current_frame_actor_ids
        /\ current_frame_actor_ids = FrameIds
        /\ \A id \in DOMAIN prev_actors \ FrameIds :
             /\ id \notin DOMAIN spawned_actors
             /\ prev_actors[id] \notin DOMAIN actors ]_vars

C21_TickedWithoutAbsent ==
  /\ pc = "scan"
  /\ exc = "none"
  /\ DOMAIN spawned_actors # {}
  /\ \E id \in DOMAIN prev_actors :
       /\ id \notin FrameIds
       /\ id \notin DOMAIN spawned_actors
       /\ prev_actors[id] \notin DOMAIN actors

\* The positions of the frame loop in the order of the loop body.
FrameOrder == << "read", "reconcile", "remove", "weather", "scan", "write_anno" >>

PositionOf(p) == CHOOSE i \in DOMAIN FrameOrder : FrameOrder[i] = p

\* C22: inside a frame the steps follow one another in the order read,
\* reconcile, weather, tick, scan check, annotation write, none is repeated
\* and none is skipped; the world is ticked once per frame, with the weather
\* of the frame already applied, so that between two frames the ticks of the
\* replay are as many as the frames processed.
C22_StepsInOrder ==
  /\ [](/\ pc \in {"read", "reconcile", "remove", "weather"} => ticks = frame_idx
        /\ pc \in {"scan", "write_anno"} =>
             (ticks = frame_idx + 1 /\ weather = data.weather)
        /\ pc \in {"reconcile", "remove", "weather", "scan", "write_anno"} =>
             anno_new = NoFile
        /\ pc \in {"reconcile", "remove", "weather"} => scan_written = NoSample
        /\ FrameProcessed => anno_new = new_data)
  /\ [][ /\ (pc' # pc /\ pc' \in Range(FrameOrder) \ {"read"}) =>
             (pc \in Range(FrameOrder) /\ PositionOf(pc') = PositionOf(pc) + 1)
         /\ (pc \in Range(FrameOrder) /\ pc' = "read" /\ pc # "read") =>
             (pc = "write_anno" /\ frame_idx' = frame_idx + 1)
         /\ ticks' # ticks => (ticks' = ticks + 1 \/ ticks' = 0)
         /\ scan_written' # scan_written => (pc = "scan" \/ scan_written' = NoSample)
     ]_vars

C22_TwoFramesTwoTicks ==
  /\ FrameProcessed
  /\ frame_idx = 2
  /\ ticks = 2
  /\ scans_saved >= 1
  /\ exc = "none"

\* C23: an attempt that ends without an actor, because the blueprint lookup
\* or a spawn call raised or both tries were blocked, raises nothing: the id
\* is remembered as failed, the loop goes on with the next entry, and when
\* the frame is ticked every listed id has been handled, as tracked or as
\* failed.
C23_SpawnFailureNotFatal ==
  /\ [][ (InReconcile /\ attempts' # attempts
           /\ spawn_try'.result \in {"blocked", "raised"}) =>
          /\ exc' = "none"
          /\ pc' = "reconcile"
          /\ bb_idx' = bb_idx + 1
          /\ CurrentBB.id \in failed_spawn_ids' ]_vars
  /\ [](pc \in {"remove", "weather", "scan", "write_anno"} =>
          /\ current_frame_actor_ids = FrameIds
          /\ \A id \in FrameIds :
               id \in DOMAIN spawned_actors \/ id \in failed_spawn_ids)

C23_LaterEntrySpawned ==
  /\ FrameProcessed
  /\ exc = "none"
  /\ \E i, j \in DOMAIN data.bounding_boxes :
       /\ i < j
       /\ data.bounding_boxes[i].id \in failed_spawn_ids \ prev_failed
       /\ data.bounding_boxes[i].id \notin DOMAIN spawned_actors
       /\ data.bounding_boxes[j].id \in DOMAIN spawned_actors \ DOMAIN prev_actors

\* The destroy calls of one cleanup that raised: the simulator calls that
\* failed during the step.
FailedInCleanup == faults' - faults

\* C24: the cleanup calls destroy on every actor of the mapping whether or
\* not the sensor or another actor could be destroyed: a tracked actor is
\* alive after the cleanup only if its own destroy call failed. The world is
\* then in asynchronous mode.
C24_CleanupGoesOn ==
  [][ (pc = "cleanup" /\ pc' = "returned") =>
        /\ synchronous_mode' = FALSE
        /\ Cardinality(TrackedHandles \cap DOMAIN actors')
             = FailedInCleanup - (IF lidar_sensor' # NoneH THEN 1 ELSE 0) ]_vars

C24_ActorsGoneSensorKept ==
  /\ pc = "returned"
  /\ lidar_sensor # NoneH
  /\ lidar_sensor \in DOMAIN actors
  /\ Cardinality(TrackedHandles) >= 2
  /\ TrackedHandles \cap DOMAIN actors = {}
  /\ ~synchronous_mode

\* C25: a type_id that is set, does not start with '/Game/' and names a
\* blueprint of the library resolves to that blueprint, whatever the class.
C25_RecordedNameFirst ==
  (Resolved
   /\ Truthy(bp_in.type_id)
   /\ ~StartsWithGame(bp_in.type_id)
   /\ NameOf(bp_in.type_id) \in bp_in.lib)
    => bp_out = NameOf(bp_in.type_id)

C25_NameBeatsClassTable ==
  /\ Resolved
  /\ bp_in.class = "walker"
  /\ bp_in.type_id = <<"vehicle.audi.tt">>
  /\ CLASS_BLUEPRINT_MAP["walker"] \in bp_in.lib
  /\ bp_out = "vehicle.audi.tt"

\* The blueprint of CLASS_BLUEPRINT_MAP['vehicle'].
GenericVehicle == "vehicle.tesla.model3"

\* C26: a type_id that starts with '/Game/' and contains no key of the mesh
\* table resolves to the generic vehicle blueprint, whatever the class.
C26_UnknownMeshIsGenericVehicle ==
  (Resolved
   /\ StartsWithGame(bp_in.type_id)
   /\ MeshMatches(bp_in.type_id) = {})
    => bp_out = GenericVehicle

Fountain == "static.prop.fountain"

\* The type_id is unset, or set, not a mesh path, and not in the library.
NameLookupFails ==
  \/ ~Truthy(bp_in.type_id)
  \/ /\ ~StartsWithGame(bp_in.type_id)
     /\ NameOf(bp_in.type_id) \notin bp_in.lib

\* C27, as the code has it: when the type_id is unset or its exact-name
\* lookup fails, the result is the class-table blueprint of the class if the
\* class is in the table and the library holds that blueprint, otherwise
\* static.prop.fountain, whose lookup raises when the library lacks it.
C27_ClassTableThenFountain ==
  (Resolved /\ NameLookupFails) =>
    bp_out = (IF /\ bp_in.class \in DOMAIN CLASS_BLUEPRINT_MAP
                 /\ CLASS_BLUEPRINT_MAP[bp_in.class] \in bp_in.lib
                THEN CLASS_BLUEPRINT_MAP[bp_in.class]
                ELSE IF Fountain \in bp_in.lib THEN Fountain ELSE Raised)

\* A walker whose recorded name is unknown resolved to the walker blueprint.
C27_WalkerFromTable ==
  /\ Resolved
  /\ bp_in.class = "walker"
  /\ bp_in.type_id = <<"vehicle.none">>
  /\ bp_out = CLASS_BLUEPRINT_MAP["walker"]

\* C27 as stated, for libraries that hold static.prop.fountain: a class of
\* the table always resolves to its class-table blueprint.
C27_AlwaysClassTable ==
  (Resolved /\ NameLookupFails /\ Fountain \in bp_in.lib) =>
    bp_out = (IF bp_in.class \in DOMAIN CLASS_BLUEPRINT_MAP
                THEN CLASS_BLUEPRINT_MAP[bp_in.class]
                ELSE Fountain)

\* The frame in hand lists an entry of class ego_vehicle.
HasEgoEntry ==
  \E i \in DOMAIN data.bounding_boxes : data.bounding_boxes[i].class = "ego_vehicle"

\* The frame a phantom actor was spawned in, and the index of the frame in
\* hand (between two frames, of the frame just processed).
PhantomFrame(h) == h.n \div (MaxPhantoms + 1)
FrameInHand == IF pc = "read" THEN frame_idx - 1 ELSE frame_idx

\* C28: in a frame that lists no ego_vehicle entry no phantom actor is
\* spawned and no phantom entry is written, whatever the frames before it
\* listed.
C28_NoEgoNoPhantom ==
  (pc \in Range(FrameOrder) /\ FrameInHand >= 0 /\ ~HasEgoEntry) =>
    /\ random_actors = <<>>
    /\ random_objects_anno = <<>>
    /\ \A h \in DOMAIN actors :
         h.kind = "phantom" => PhantomFrame(h) # FrameInHand
    /\ anno_new # NoFile => anno_new.bounding_boxes = data.bounding_boxes

\* A frame without ego entry has been processed with phantoms switched on,
\* after a frame whose ego entry was spawned and given a phantom.
C28_EgoKnownEarlier ==
  /\ FrameProcessed
  /\ frame_idx >= 2
  /\ ~HasEgoEntry
  /\ spawn_frequency[2] > 0
  /\ prev_actors # EmptyMap
  /\ anno_new # NoFile
  /\ exc = "none"

\* The phantom actors of the frame in hand that are in the world.
PhantomsOfFrame == {h \in DOMAIN actors : h.kind = "phantom" /\ PhantomFrame(h) = frame_idx}

\* C29: once spawn_random_objects has returned, the phantom entries of the
\* frame are as many as the phantom actors spawned in it, each of class
\* random_object, and no more than the upper end of spawn_frequency.
C29_EntryPerPhantom ==
  pc \in {"remove", "weather", "scan", "write_anno"} =>
    /\ Len(random_objects_anno) = Cardinality(PhantomsOfFrame)
    /\ Len(random_objects_anno) <= spawn_frequency[2]
    /\ \A i \in DOMAIN random_objects_anno :
         random_objects_anno[i].class = "random_object"

\* The frame index a scan file name spells.
RECURSIVE NameValue(_)
NameValue(ds) ==
  IF ds = <<>> THEN 0
  ELSE NameValue(SubSeq(ds, 1, Len(ds) - 1)) * 10 + ds[Len(ds)]

\* C30: a scan written during frame N gets the five-digit zero-padded name
\* of N, N being the position of the frame's annotation file in the sorted
\* list of the instance's annotation files; the frames are taken in strictly
\* increasing index order, each at most once, and a frame whose scan is
\* skipped or not written leaves no file of its index.
C30_ScanNamedByPosition ==
  /\ [](LET files == anno_files
        IN  /\ Len(files) = FileCount
            /\ \A i \in 1..(Len(files) - 1) : StrLess(files[i], files[i + 1])
            /\ pc \in Range(FrameOrder) \ {"read"} =>
                 (frame_idx < Len(files) /\ anno_file \in AnnoDir
                  /\ \A i \in 1..frame_idx : StrLess(files[i], anno_file))
            /\ \A f \in lidar_files : Len(f) = NameWidth /\ NameValue(f) <= frame_idx
            /\ Cardinality(lidar_files) = scans_saved
            /\ pc \in {"reconcile", "remove", "weather", "scan"} =>
                 \A f \in lidar_files : NameValue(f) < frame_idx
            /\ (pc = "write_anno" /\ scan_written = NoSample) =>
                 \A f \in lidar_files : NameValue(f) # frame_idx)
  /\ [][ /\ frame_idx' # frame_idx => (frame_idx' = frame_idx + 1 \/ frame_idx' = 0)
         /\ lidar_files' # lidar_files =>
              \/ lidar_files' = {}
              \/ /\ pc = "scan"
                 /\ scan_written' # NoSample
                 /\ \E f \in lidar_files' \ lidar_files :
                      /\ lidar_files' = lidar_files \cup {f}
                      /\ Len(f) = NameWidth
                      /\ NameValue(f) = frame_idx
     ]_vars

\* The scan of the first frame was skipped and that of the second written:
\* the lidar directory holds the name of index 1 and none of index 0.
C30_SecondFrameOnly ==
  /\ pc = "read"
  /\ frame_idx = 2
  /\ exc = "none"
  /\ lidar_files = {<< 0, 0, 0, 0, 1 >>}

C32_FailedDisjointFromLive ==
  DOMAIN spawned_actors \cap failed_spawn_ids = {}

\* C33: a scan written during the replay of an instance holds a sample
\* delivered by the sensor attached in that same instance, never a buffer left
\* over from an earlier instance of the batch.
C33_ScanFromOwnInstance ==
  scan_written # NoSample => SensorOf(scan_written) = inst

\* C34: under any interleaving of the callback with the loop no delivered
\* sample is written to more than one scan file and a frame gets at most one
\* scan file; the loop never sets the ready flag, and the count of saved
\* scans never exceeds the number of frames processed.
C34_OneFilePerSample ==
  /\ [](/\ scans_saved <= frame_idx + 1
        /\ pc = "read" => scans_saved <= frame_idx)
  /\ [][ /\ (scan_written' # scan_written /\ scan_written' # NoSample) => ~slot_written
         /\ scans_saved' # scans_saved =>
              (scans_saved' = 0 \/ (scans_saved' = scans_saved + 1 /\ scan_written = NoSample))
         /\ (lidar_data_ready' /\ ~lidar_data_ready) => pc' = pc
     ]_vars

\* The number a run of digit characters spells.
RECURSIVE CharsValue(_)
CharsValue(cs) ==
  IF cs = <<>> THEN 0
  ELSE CharsValue(SubSeq(cs, 1, Len(cs) - 1)) * 10
         + ((CHOOSE d \in DOMAIN DigitChars : DigitChars[d] = cs[Len(cs)]) - 1)

\* The frame index and the attempt index a phantom id spells: the numbers
\* before and after its last underscore.
LastUnderscore(id) == CHOOSE k \in 3..Len(id) : id[k] = "_" /\ \A m \in (k + 1)..Len(id) : id[m] # "_"
IdFrame(id) == CharsValue(SubSeq(id, 3, LastUnderscore(id) - 1))
IdAttempt(id) == CharsValue(SubSeq(id, LastUnderscore(id) + 1, Len(id)))

\* The ids of the phantom entries of the frame in hand, in order.
PhantomIds == [k \in DOMAIN random_objects_anno |-> random_objects_anno[k].id]

recorderState ==
  << n_instances, dataset, spawn_frequency, inst, started, fatal, interrupt_inst,
     recorderVars, worldVars, frameVars, replayVars, exc, envVars >>

\* The bytes the manifest was made from, and what the file on disk may hold
\* instead; Missing is no file at all.
Reference == << 1 >>
Contents == {<< 1 >>, << 2 >>, << 1, 2 >>}
Missing == <<>>

\* hashlib.sha256 over the blocks of the file: a digest of the bytes.
RECURSIVE hexdigest(_)
hexdigest(bytes) ==
  IF bytes = <<>> THEN 7 ELSE (Head(bytes) + 31 * hexdigest(Tail(bytes))) % 257

\* One entry of the manifest: whether the name ends in .tar.gz, and the size
\* and checksum it lists.
ManifestEntry(tar) ==
  [tar |-> tar, size |-> Len(Reference), sha256 |-> hexdigest(Reference)]

Manifests ==
  UNION {[1..n -> {ManifestEntry(TRUE), ManifestEntry(FALSE)}] : n \in 1..MaxFiles}

\* The manifest is downloaded next to the dataset files.
InitValidate ==
  /\ InitCommon
  /\ pc = "download"
  /\ n_instances = 1
  /\ dataset = "ego"
  /\ spawn_frequency = <<0, 0>>
  /\ bp_in = NoBp
  /\ scan_in = NoScan
  /\ conversion = NoConversion
  /\ \E manifest \in Manifests :
       \E disk \in [DOMAIN manifest -> Contents \cup {Missing}] :
         validation = [NoValidation EXCEPT !.data = manifest, !.disk = disk]

\* download_bech2drive_dataset calls validate_dataset, which loads the
\* manifest and starts the first loop.
ValidateBegin ==
  /\ pc = "download"
  /\ validation' = [validation EXCEPT !.i = 1]
  /\ pc' = "check"
  /\ UNCHANGED << conversion, recorderState >>

\* The three checks of the first loop on the file in hand.
FilePasses(k) ==
  /\ validation.disk[k] # Missing
  /\ Len(validation.disk[k]) = validation.data[k].size
  /\ hexdigest(validation.disk[k]) = validation.data[k].sha256

\* A first loop that extracts an archive as soon as it has passed its checks.
CheckFileExtracts ==
  /\ pc = "check"
  /\ validation.i <= Len(validation.data)
  /\ FilePasses(validation.i)
  /\ validation' =
       [validation EXCEPT !.i = @ + 1,
                          !.extracted = IF validation.data[validation.i].tar
                                          THEN @ \cup {validation.i} ELSE @]
  /\ UNCHANGED << pc, conversion, recorderState >>

\* The file in hand passes and the first loop goes on.
CheckFile ==
  /\ pc = "check"
  /\ validation.i <= Len(validation.data)
  /\ FilePasses(validation.i)
  /\ validation' = [validation EXCEPT !.i = @ + 1]
  /\ UNCHANGED << pc, conversion, recorderState >>

\* The file in hand is missing or mismatched: validate_dataset returns False.
CheckFails ==
  /\ pc = "check"
  /\ validation.i <= Len(validation.data)
  /\ ~FilePasses(validation.i)
  /\ validation' = [validation EXCEPT !.result = "False"]
  /\ pc' = "validated"
  /\ UNCHANGED << conversion, recorderState >>

\* The first loop is exhausted and the second begins.
ChecksDone ==
  /\ pc = "check"
  /\ validation.i > Len(validation.data)
  /\ validation' = [validation EXCEPT !.i = 1]
  /\ pc' = "extract"
  /\ UNCHANGED << conversion, recorderState >>

\* The second loop: an archive is extracted, any other file passed over.
ExtractFile ==
  /\ pc = "extract"
  /\ validation.i <= Len(validation.data)
  /\ validation' =
       [validation EXCEPT !.i = @ + 1,
                          !.extracted = IF validation.data[validation.i].tar
                                          THEN @ \cup {validation.i} ELSE @]
  /\ UNCHANGED << pc, conversion, recorderState >>

\* tarfile raises on the archive in hand: the exception leaves
\* validate_dataset and download_bech2drive_dataset.
ExtractRaises ==
  /\ pc = "extract"
  /\ validation.i <= Len(validation.data)
  /\ validation.data[validation.i].tar
  /\ validation' = [validation EXCEPT !.raised = "TarError"]
  /\ pc' = "done"
  /\ UNCHANGED << conversion, recorderState >>

\* The second loop is exhausted: validate_dataset returns True.
ValidateReturns ==
  /\ pc = "extract"
  /\ validation.i > Len(validation.data)
  /\ validation' = [validation EXCEPT !.result = "True"]
  /\ pc' = "validated"
  /\ UNCHANGED << conversion, recorderState >>

\* download_bech2drive_dataset prints the success or raises ValueError.
DownloadEnds ==
  /\ pc = "validated"
  /\ validation' = [validation EXCEPT !.raised = IF validation.result = "True"
                                                  THEN "none" ELSE "ValueError"]
  /\ pc' = "done"
  /\ UNCHANGED << conversion, recorderState >>

NextValidate ==
  \/ ValidateBegin \/ CheckFile \/ CheckFails \/ ChecksDone
  \/ ExtractFile \/ ExtractRaises \/ ValidateReturns \/ DownloadEnds

SpecValidate == InitValidate /\ [][NextValidate]_vars

\* Every file the manifest lists is on disk with the listed size and checksum.
AllFilesPass == \A k \in DOMAIN validation.data : FilePasses(k)

NoLoad == [n |-> 0, intensity |-> FALSE]
Loads == {NoLoad} \cup [n : 1..MaxPoints, intensity : BOOLEAN]
ColorBy == {"height", "intensity", "file", "none"}
NoColors == << <<>> >>
NoColor == <<>>
NoObj == <<>>

\* The rows of one file's points array: the file and the row.
PointsOf(i, load) == [k \in 1..load.n |-> << i, k >>]

\* The colors process_multiple_files computes for one file, one row per
\* point, or None.
StackColors(color_by, i, load) ==
  IF color_by = "file" THEN PointsOf(i, load)
  ELSE IF color_by = "intensity" /\ load.intensity THEN PointsOf(i, load)
  ELSE IF color_by = "height" THEN PointsOf(i, load)
  ELSE NoColors

\* The colors process_single_file computes.
SingleColors(color_by, load) ==
  IF color_by = "intensity" /\ load.intensity THEN PointsOf(1, load)
  ELSE IF color_by = "height" THEN PointsOf(1, load)
  ELSE NoColors

\* all_points and all_colors after the loop over the files from i on: a file
\* that did not load is passed over, and colors are appended only when the
\* file has some.
RECURSIVE all_points(_, _)
all_points(files, i) ==
  IF i > Len(files) THEN <<>>
  ELSE (IF files[i] = NoLoad THEN <<>> ELSE PointsOf(i, files[i]))
       \o all_points(files, i + 1)

RECURSIVE all_colors(_, _, _)
all_colors(files, color_by, i) ==
  IF i > Len(files) THEN <<>>
  ELSE (IF files[i] = NoLoad \/ StackColors(color_by, i, files[i]) = NoColors
          THEN <<>> ELSE StackColors(color_by, i, files[i]))
       \o all_colors(files, color_by, i + 1)

\* points_to_obj: the header with the count, one vertex record per pair of
\* zip(points, colors) or per point when colors is None, then one
\* point-primitive record per index of range(1, len(points) + 1).
points_to_obj(points, colors) ==
  << [kind |-> "#", n |-> Len(points)] >>
  \o (IF colors # NoColors
        THEN [k \in 1..(IF Len(points) < Len(colors) THEN Len(points) ELSE Len(colors)) |->
                [kind |-> "v", point |-> points[k], color |-> colors[k]]]
        ELSE [k \in 1..Len(points) |-> [kind |-> "v", point |-> points[k], color |-> NoColor]])
  \o [k \in 1..Len(points) |-> [kind |-> "p", i |-> k]]

\* process_single_file: False when the file does not load.
process_single_file(load, color_by) ==
  IF load = NoLoad THEN NoObj
  ELSE points_to_obj(PointsOf(1, load), SingleColors(color_by, load))

\* process_multiple_files: False when no file loads; all_colors is None when
\* no file gave colors.
process_multiple_files(files, color_by) ==
  IF all_points(files, 1) = <<>> THEN NoObj
  ELSE points_to_obj(all_points(files, 1),
                     IF all_colors(files, color_by, 1) = <<>> THEN NoColors
                     ELSE all_colors(files, color_by, 1))

\* The utility is run on one file, or on a directory with or without --stack.
InitObj ==
  /\ InitCommon
  /\ pc = "obj"
  /\ n_instances = 1
  /\ dataset = "ego"
  /\ spawn_frequency = <<0, 0>>
  /\ bp_in = NoBp
  /\ scan_in = NoScan
  /\ validation = NoValidation
  /\ \E files \in UNION {[1..n -> Loads] : n \in 1..MaxFiles}, c \in ColorBy, st \in BOOLEAN :
       conversion = [files |-> files, color_by |-> c, stack |-> st, out |-> NoObj]

\* main without --stack: the first file alone.
ConvertSingle ==
  /\ pc = "obj"
  /\ ~conversion.stack
  /\ conversion' = [conversion EXCEPT
                      !.out = process_single_file(conversion.files[1], conversion.color_by)]
  /\ pc' = "obj_done"
  /\ UNCHANGED << validation, recorderState >>

\* main with --stack: every file.
ConvertStack ==
  /\ pc = "obj"
  /\ conversion.stack
  /\ conversion' = [conversion EXCEPT
                      !.out = process_multiple_files(conversion.files, conversion.color_by)]
  /\ pc' = "obj_done"
  /\ UNCHANGED << validation, recorderState >>

NextObj == ConvertSingle \/ ConvertStack

SpecObj == InitObj /\ [][NextObj]_vars

\* The records of a kind in the written file.
Records(kind) == SelectSeq(conversion.out, LAMBDA r : r.kind = kind)

\* C37: the written mesh file is self-consistent: as many vertex records as
\* point-primitive records and as points, for one file and for a stack, also
\* when only some files of the stack yield colors.
C37_ObjSelfConsistent ==
  (pc = "obj_done" /\ conversion.out # NoObj) =>
    /\ Len(Records("v")) = Len(Records("p"))
    /\ Len(Records("v")) = conversion.out[1].n
    /\ \A k \in 1..Len(Records("v")) :
         Records("v")[k].color \in {NoColor, Records("v")[k].point}

====
